---- MODULE Spec2Model ----
(***************************************************************************)
(* A model of the r2vm RISC-V emulator core: the per-hart Context with its *)
(* L0 translation caches, the SV39 translator, the interpreter (step),     *)
(* the block driver (find_block / interp_block) and trap delivery.         *)
(*                                                                         *)
(* Machine words are 64 bits wide in the source.  TLC's integers are 32    *)
(* bits wide, so every word is modelled XLEN bits wide and every constant  *)
(* of the source that names a bit position near the top of a word is       *)
(* expressed relative to XLEN (the satp MODE field is the top four bits,   *)
(* i64::max_value() is 2^(XLEN-1) - 1, the interrupt bit of scause is bit  *)
(* XLEN-1).  Arithmetic wraps modulo 2^XLEN as wrapping_add does.          *)
(***************************************************************************)
EXTENDS Integers, Sequences, FiniteSets, TLC

VARIABLES
    CONTEXTS,   \* hart index -> Context (crate::CONTEXTS)
    memory,     \* guest physical memory: aligned doubleword address -> value
    events,     \* event loop queue: sequence of [cycle, hart] timer events
    cycle,      \* event_loop().cycle(), the virtual time
    running,    \* FALSE once the process has exited or panicked
    ICACHE,     \* the code cache map: physical pc -> DbtBlock
    CODE_CACHE, \* the Heap of the code cache: its cursor and the arena
    at,         \* hart index -> where the hart's thread is in its loop
    asserts,    \* calls of SharedContext::assert in progress on other threads
    history,    \* history variable: the LR/SC/store log, and per hart the
                \* sip bits its latest interrupt evaluation has seen
    EVENT_LOOP, \* the fields of crate::EVENT_LOOP beside its heap: the shutdown
                \* flag, next_event, and whether the condvar has been notified
    FLAGS,      \* crate::FLAGS: the execution mode
    EXIT_REASON,\* crate::EXIT_REASON
    console,    \* the console thread: stdin still unread and the bytes sent on tx
    WAIT_LIST_MAP, \* fiber::park: key -> WaitList (head and tail of the list)
    MMIO        \* a virtio device behind its Mmio front-end

vars == <<CONTEXTS, memory, events, cycle, running, ICACHE, CODE_CACHE, at, asserts, history,
          EVENT_LOOP, FLAGS, EXIT_REASON, console, WAIT_LIST_MAP, MMIO>>
\* The parking lot of the fibers and the virtio device
devices == <<WAIT_LIST_MAP, MMIO>>
\* The state outside the harts: the event loop, the driver, the console and
\* the devices
host == <<EVENT_LOOP, FLAGS, EXIT_REASON, console, WAIT_LIST_MAP, MMIO>>

----------------------------------------------------------------------------
(* Bounds of the model *)

\* Width of a machine word in bits (64 in the source).
XLEN == 24
\* Number of entries of each L0 cache (1024 in the source).
L0_LINES == 4
\* Instructions a hart may retire before the model stops scheduling it:
\* in SpecHart, and in SpecMmu.
MaxInstret == 6
MaxMmuInstret == 8
\* Memory operations a hart may start before the model stops scheduling it.
MaxMinstret == 3

(* Constants of the program *)
CACHE_LINE_LOG2_SIZE == 12

----------------------------------------------------------------------------
(* Words and bit operations *)

Pow2(n) == 2 ^ n
WordMod == Pow2(XLEN)
Word(x) == x % WordMod
WordMax == WordMod - 1
wrapping_add(a, b) == (a + b) % WordMod
wrapping_sub(a, b) == (a - b) % WordMod
PAGE_SIZE == Pow2(CACHE_LINE_LOG2_SIZE)

RECURSIVE BitAnd(_, _)
BitAnd(a, b) ==
    IF a = 0 \/ b = 0 THEN 0
    ELSE (a % 2) * (b % 2) + 2 * BitAnd(a \div 2, b \div 2)

RECURSIVE BitOr(_, _)
BitOr(a, b) ==
    IF a = 0 THEN b
    ELSE IF b = 0 THEN a
    ELSE (IF a % 2 = 1 \/ b % 2 = 1 THEN 1 ELSE 0) + 2 * BitOr(a \div 2, b \div 2)

RECURSIVE BitXor(_, _)
BitXor(a, b) ==
    IF a = 0 THEN b
    ELSE IF b = 0 THEN a
    ELSE ((a + b) % 2) + 2 * BitXor(a \div 2, b \div 2)

\* a &! b
BitAndNot(a, b) == a - BitAnd(a, b)
Shr(a, n) == a \div Pow2(n)
Shl(a, n) == (a % Pow2(XLEN - n)) * Pow2(n)

----------------------------------------------------------------------------
(* CacheLine and the two L0 caches of a Context *)

\* i64::max_value() as u64, the tag of an empty line.
EmptyTag == Pow2(XLEN - 1) - 1

LineIndex(idx) == idx % L0_LINES

EmptyCache == [i \in 0 .. L0_LINES - 1 |-> [tag |-> EmptyTag, paddr |-> 0]]

clear_local_cache(c) ==
    [c EXCEPT !.line = [i \in DOMAIN c.line |-> [c.line[i] EXCEPT !.tag = EmptyTag]]]

clear_local_icache(c) ==
    [c EXCEPT !.i_line = [i \in DOMAIN c.i_line |-> [c.i_line[i] EXCEPT !.tag = EmptyTag]]]

----------------------------------------------------------------------------
(* Guest physical memory, doubleword granular; unwritten memory reads 0 *)

read_memory(m, a) == IF a \in DOMAIN m THEN m[a] ELSE 0

write_memory(m, a, v) ==
    [x \in (DOMAIN m \cup {a}) \ (IF v = 0 THEN {a} ELSE {}) |->
        IF x = a THEN v ELSE m[x]]

----------------------------------------------------------------------------
(* SV39 translation *)

SATP_MODE_SHIFT == XLEN - 4
SatpMode(satp) == Shr(satp, SATP_MODE_SHIFT)
SatpPpn(satp) == satp % Pow2(SATP_MODE_SHIFT)

Ok(v) == [ok |-> TRUE, val |-> v]
Err(v) == [ok |-> FALSE, val |-> v]

\* Index into the page table of a level (2 is the root)
Vpn(addr, level) == Shr(addr, 12 + 9 * level) % 512

\* A leaf: the physical address, after the A bit and, for a write, W and D
Leaf(pte, addr, write, level) ==
    IF BitAnd(pte, 64) = 0 \/ (write /\ (BitAnd(pte, 4) = 0 \/ BitAnd(pte, 128) = 0))
    THEN Err(IF write THEN 15 ELSE 13)
    ELSE Ok(BitOr(Shl(Shr(pte, 10), 12), BitAnd(addr, Pow2(12 + 9 * level) - 1)))

RECURSIVE Walk(_, _, _, _, _)
\* The walk from the entry pte read at a level down to the leaf
Walk(m, addr, write, level, pte) ==
    IF BitAnd(pte, 1) = 0 THEN Err(IF write THEN 15 ELSE 13)
    ELSE IF level = 0 \/ BitAnd(pte, 15) # 1 THEN Leaf(pte, addr, write, level)
    ELSE Walk(m, addr, write, level - 1,
              read_memory(m, Shr(pte, 10) * 4096 + Vpn(addr, level - 1) * 8))

translate(c, m, addr, write) ==
    IF SatpMode(c.satp) = 0 THEN Ok(addr)
    ELSE Walk(m, addr, write, 2,
              read_memory(m, SatpPpn(c.satp) * 4096 + Vpn(addr, 2) * 8))

----------------------------------------------------------------------------
(* L0 cache refill and lookup.  Each returns [ok, val, ctx]: the Result    *)
(* (the physical address, or nothing after scause/stval are written) and   *)
(* the Context as the call leaves it.                                      *)

Res(ok, val, c) == [ok |-> ok, val |-> val, ctx |-> c]

Fault(c, cause, tval) == [c EXCEPT !.scause = cause, !.stval = tval]

PageOf(addr) == Shr(addr, CACHE_LINE_LOG2_SIZE)

\* Variant of DemoteLine: a fetch leaves the data line as it is
DemoteLineNone(line, idx) == line

\* The data line of a page being fetched from is marked non-writable
DemoteLine(line, idx) ==
    IF Shr(line.tag, 1) = idx THEN [line EXCEPT !.tag = BitOr(@, 1)] ELSE line

InsnFill(c, addr, out) ==
    IF ~out.ok THEN Res(FALSE, 0, Fault(c, out.val, addr))
    ELSE Res(TRUE, out.val,
             [c EXCEPT !.line[LineIndex(PageOf(addr))] = DemoteLine(@, PageOf(addr)),
                       !.i_line[LineIndex(PageOf(addr))] =
                            [tag |-> PageOf(addr), paddr |-> BitXor(out.val, addr)]])

insn_translate_cache_miss(c, m, addr) == InsnFill(c, addr, translate(c, m, addr, FALSE))

insn_translate(c, m, addr) ==
    IF c.i_line[LineIndex(PageOf(addr))].tag # PageOf(addr)
    THEN insn_translate_cache_miss(c, m, addr)
    ELSE Res(TRUE, BitXor(c.i_line[LineIndex(PageOf(addr))].paddr, addr), c)

\* A write miss drops the page from the I-side
DropILine(line, idx) ==
    IF line.tag = idx THEN [line EXCEPT !.tag = EmptyTag] ELSE line

\* Variant of DataFill: the line keeps the physical address itself
DataFillRaw(c, addr, write, out) ==
    IF ~out.ok THEN Res(FALSE, 0, Fault(c, out.val, addr))
    ELSE Res(TRUE, out.val,
             [c EXCEPT !.line[LineIndex(PageOf(addr))] =
                            [tag |-> BitOr(Shl(PageOf(addr), 1), IF write THEN 0 ELSE 1),
                             paddr |-> out.val]])

DataFill(c, addr, write, out) ==
    IF ~out.ok THEN Res(FALSE, 0, Fault(c, out.val, addr))
    ELSE IF write
        THEN Res(TRUE, out.val,
                 [c EXCEPT !.line[LineIndex(PageOf(addr))] =
                                [tag |-> Shl(PageOf(addr), 1), paddr |-> BitXor(out.val, addr)],
                           !.i_line[LineIndex(PageOf(addr))] = DropILine(@, PageOf(addr))])
    ELSE Res(TRUE, out.val,
             [c EXCEPT !.line[LineIndex(PageOf(addr))] =
                            [tag |-> BitOr(Shl(PageOf(addr), 1), 1),
                             paddr |-> BitXor(out.val, addr)]])

translate_cache_miss(c, m, addr, write) ==
    DataFill(c, addr, write, translate(c, m, addr, write))

CountAccess(c) == [c EXCEPT !.minstret = @ + 1]

read_vaddr(c, m, addr) ==
    IF Shr(c.line[LineIndex(PageOf(addr))].tag, 1) # PageOf(addr)
    THEN translate_cache_miss(CountAccess(c), m, addr, FALSE)
    ELSE Res(TRUE, BitXor(c.line[LineIndex(PageOf(addr))].paddr, addr), CountAccess(c))

ptr_vaddr_x(c, m, addr) ==
    IF c.line[LineIndex(PageOf(addr))].tag # Shl(PageOf(addr), 1)
    THEN translate_cache_miss(CountAccess(c), m, addr, TRUE)
    ELSE Res(TRUE, BitXor(c.line[LineIndex(PageOf(addr))].paddr, addr), CountAccess(c))

----------------------------------------------------------------------------
(* Trap delivery (system mode) *)

SetBit(v, mask, on) == IF on THEN BitOr(v, mask) ELSE BitAndNot(v, mask)

\* Variant of TrapStatus: SIE is left as it was
TrapStatusKeepSie(sstatus, prv) ==
    SetBit(SetBit(sstatus, 256, prv # 0), 32, BitAnd(sstatus, 2) # 0)

\* sstatus after a trap taken at privilege prv: SPP := prv, SPIE := SIE, SIE := 0
TrapStatus(sstatus, prv) ==
    BitAndNot(SetBit(SetBit(sstatus, 256, prv # 0), 32, BitAnd(sstatus, 2) # 0), 2)

FlushIfUser(c, prv) ==
    IF prv # 0 THEN c ELSE clear_local_icache(clear_local_cache(c))

trap(c) ==
    FlushIfUser([c EXCEPT !.sepc = c.pc,
                          !.sstatus = TrapStatus(@, c.prv),
                          !.prv = 1,
                          !.pc = c.stvec],
                c.prv)

----------------------------------------------------------------------------
(* SharedContext *)

alert(sh) == [sh EXCEPT !.new_interrupts = BitOr(@, 1)]

\* Variant of assert: alert on every call
assert_alerting(sh, mask) == alert([sh EXCEPT !.sip = BitOr(@, mask)])

assert(sh, mask) ==
    LET old == sh.sip
        sh1 == [sh EXCEPT !.sip = BitOr(old, mask)]
    IN  IF BitAnd(old, mask) # mask THEN alert(sh1) ELSE sh1

deassert(sh, mask) == [sh EXCEPT !.sip = BitAndNot(@, mask)]

interrupt_pending(c) ==
    IF BitAnd(c.sstatus, 2) # 0 THEN BitAnd(c.shared.sip, c.sie) ELSE 0

test_and_set_fs(c) ==
    IF BitAnd(c.sstatus, 24576) = 0
    THEN Res(FALSE, 0, Fault(c, 2, 0))
    ELSE Res(TRUE, 0, [c EXCEPT !.sstatus = BitOr(@, 24576)])

----------------------------------------------------------------------------
(* CSRs.  The Csr type belongs to the riscv crate; its numbering, and the  *)
(* privilege and read-only fields of a CSR number, are those of the RISC-V *)
(* privileged architecture.                                                *)

CsrNumber(csr) ==
    CASE csr = "Fflags" -> 1
      [] csr = "Frm" -> 2
      [] csr = "Fcsr" -> 3
      [] csr = "Cycle" -> 3072
      [] csr = "Time" -> 3073
      [] csr = "Instret" -> 3074
      [] csr = "Sstatus" -> 256
      [] csr = "Sie" -> 260
      [] csr = "Stvec" -> 261
      [] csr = "Scounteren" -> 262
      [] csr = "Sscratch" -> 320
      [] csr = "Sepc" -> 321
      [] csr = "Scause" -> 322
      [] csr = "Stval" -> 323
      [] csr = "Sip" -> 324
      [] csr = "Satp" -> 384
      [] csr = "Mscratch" -> 832

Csrs == {"Fflags", "Frm", "Fcsr", "Cycle", "Time", "Instret", "Sstatus", "Sie",
         "Stvec", "Scounteren", "Sscratch", "Sepc", "Scause", "Stval", "Sip", "Satp",
         "Mscratch"}

min_prv_level(csr) == Shr(CsrNumber(csr), 8) % 4
readonly(csr) == Shr(CsrNumber(csr), 10) % 4 = 3

\* Bits of sstatus that sit above the fields the guest can write: SD is the
\* top bit of the word, UXL = 0b10 is placed below it.
SSTATUS_SD == Pow2(XLEN - 1)
SSTATUS_UXL == Pow2(XLEN - 3)
SSTATUS_WRITABLE == 811298   \* 0xC6122

read_csr(c, csr, now) ==
    IF c.prv < min_prv_level(csr) THEN Res(FALSE, 0, Fault(c, 2, 0))
    ELSE CASE csr = "Fflags" ->
                LET r == test_and_set_fs(c)
                IN  IF r.ok THEN Res(TRUE, BitAnd(r.ctx.fcsr, 31), r.ctx) ELSE r
           [] csr = "Frm" ->
                LET r == test_and_set_fs(c)
                IN  IF r.ok THEN Res(TRUE, BitAnd(Shr(r.ctx.fcsr, 5), 7), r.ctx) ELSE r
           [] csr = "Fcsr" ->
                LET r == test_and_set_fs(c)
                IN  IF r.ok THEN Res(TRUE, r.ctx.fcsr, r.ctx) ELSE r
           [] csr = "Time" -> Res(TRUE, now \div 100, c)
           [] csr = "Instret" -> Res(TRUE, wrapping_sub(c.instret, 1), c)
           [] csr = "Sstatus" ->
                LET v1 == IF BitAnd(c.sstatus, 24576) = 24576
                          THEN BitOr(c.sstatus, SSTATUS_SD) ELSE c.sstatus
                IN  Res(TRUE, BitOr(v1, SSTATUS_UXL), c)
           [] csr = "Sie" -> Res(TRUE, c.sie, c)
           [] csr = "Stvec" -> Res(TRUE, c.stvec, c)
           [] csr = "Scounteren" -> Res(TRUE, 0, c)
           [] csr = "Sscratch" -> Res(TRUE, c.sscratch, c)
           [] csr = "Sepc" -> Res(TRUE, c.sepc, c)
           [] csr = "Scause" -> Res(TRUE, c.scause, c)
           [] csr = "Stval" -> Res(TRUE, c.stval, c)
           [] csr = "Sip" -> Res(TRUE, c.shared.sip, c)
           [] csr = "Satp" -> Res(TRUE, c.satp, c)
           [] OTHER -> Res(FALSE, 0, Fault(c, 2, 0))

AlertIfPending(c) ==
    IF interrupt_pending(c) # 0 THEN [c EXCEPT !.shared = alert(@)] ELSE c

write_csr_Stvec(c, value) ==
    \* only MODE 0 is supported
    IF BitAnd(value, 2) = 0 THEN [c EXCEPT !.stvec = value] ELSE c

write_csr_Sepc(c, value) == [c EXCEPT !.sepc = BitAndNot(value, 1)]

\* Variant of write_csr_Satp: flush only when the mode is accepted
write_csr_SatpAccepted(c, value) ==
    CASE SatpMode(value) = 0 -> clear_local_icache(clear_local_cache([c EXCEPT !.satp = 0]))
      [] SatpMode(value) = 8 -> clear_local_icache(clear_local_cache([c EXCEPT !.satp = value]))
      [] OTHER -> c

write_csr_Satp(c, value) ==
    LET c1 == CASE SatpMode(value) = 0 -> [c EXCEPT !.satp = 0]
                [] SatpMode(value) = 8 -> [c EXCEPT !.satp = value]
                [] OTHER -> c
    IN  clear_local_icache(clear_local_cache(c1))

write_csr(c, csr, value) ==
    IF readonly(csr) \/ c.prv < min_prv_level(csr) THEN Res(FALSE, 0, Fault(c, 2, 0))
    ELSE CASE csr = "Fflags" ->
                LET r == test_and_set_fs(c)
                IN  IF r.ok
                    THEN Res(TRUE, 0, [r.ctx EXCEPT !.fcsr =
                             BitOr(BitAndNot(@, 31), BitAnd(value, 31))])
                    ELSE r
           [] csr = "Frm" ->
                LET r == test_and_set_fs(c)
                IN  IF r.ok
                    THEN Res(TRUE, 0, [r.ctx EXCEPT !.fcsr =
                             BitOr(BitAndNot(@, 224), BitAnd(value, 7) * 32)])
                    ELSE r
           [] csr = "Fcsr" ->
                LET r == test_and_set_fs(c)
                IN  IF r.ok
                    THEN Res(TRUE, 0, [r.ctx EXCEPT !.fcsr = BitAnd(value, 255)])
                    ELSE r
           [] csr = "Instret" -> Res(TRUE, 0, [c EXCEPT !.instret = value])
           [] csr = "Sstatus" ->
                Res(TRUE, 0, AlertIfPending(
                    [c EXCEPT !.sstatus = BitAnd(value, SSTATUS_WRITABLE)]))
           [] csr = "Sie" -> Res(TRUE, 0, AlertIfPending([c EXCEPT !.sie = value]))
           [] csr = "Stvec" -> Res(TRUE, 0, write_csr_Stvec(c, value))
           [] csr = "Scounteren" -> Res(TRUE, 0, c)
           [] csr = "Sscratch" -> Res(TRUE, 0, [c EXCEPT !.sscratch = value])
           [] csr = "Sepc" -> Res(TRUE, 0, write_csr_Sepc(c, value))
           [] csr = "Scause" -> Res(TRUE, 0, [c EXCEPT !.scause = value])
           [] csr = "Stval" -> Res(TRUE, 0, [c EXCEPT !.stval = value])
           [] csr = "Sip" ->
                Res(TRUE, 0, [c EXCEPT !.shared =
                    IF BitAnd(value, 2) # 0 THEN assert(@, 2) ELSE deassert(@, 2)])
           [] csr = "Satp" -> Res(TRUE, 0, write_csr_Satp(c, value))
           [] OTHER -> Res(FALSE, 0, Fault(c, 2, 0))

----------------------------------------------------------------------------
(* The interpreter.  An Op is a record [op, rd, rs1, rs2, imm, csr, rm,    *)
(* ext]: frd/frs1/frs2 of the floating-point ops use rd/rs1/rs2, imm holds *)
(* `imm as u64`, and ext is what the external capability the op calls      *)
(* (the soft-float library, the console) returns for it.                   *)
(* A world is [C, m, ev, run]: the contexts, guest memory, the event       *)
(* queue and the process being alive.  step returns [w, ok].               *)

MkOp(name, rd, rs1, rs2, imm) ==
    [op |-> name, rd |-> rd, rs1 |-> rs1, rs2 |-> rs2, imm |-> imm,
     csr |-> "None", rm |-> 0, ext |-> 0]
MkCsrOp(name, rd, rs1, imm, csr) ==
    [op |-> name, rd |-> rd, rs1 |-> rs1, rs2 |-> 0, imm |-> imm,
     csr |-> csr, rm |-> 0, ext |-> 0]
MkFpOp(name, rd, rs1, rs2, rm, ext) ==
    [op |-> name, rd |-> rd, rs1 |-> rs1, rs2 |-> rs2, imm |-> 0,
     csr |-> "None", rm |-> rm, ext |-> ext]

World(C, m, ev, run) == [C |-> C, m |-> m, ev |-> ev, run |-> run]
SetCtx(w, h, c) == [w EXCEPT !.C[h] = c]
StepOk(w) == [w |-> w, ok |-> TRUE]
StepErr(w) == [w |-> w, ok |-> FALSE]
\* a panic (unwrap on Err, unknown SBI call) or process::exit ends the process
Dead(w) == [w |-> [w EXCEPT !.run = FALSE], ok |-> TRUE]

read_reg(c, rs) == c.registers[rs]

\* Variant of write_reg: no test of rd
write_reg_any(c, rd, value) == [c EXCEPT !.registers[rd] = value]

write_reg(c, rd, value) ==
    IF rd # 0 THEN [c EXCEPT !.registers[rd] = value] ELSE c

\* `value as i32 as u64`: the low half of the word, sign-extended
HalfBits == XLEN \div 2
SignExtendHalf(v) ==
    LET lo == v % Pow2(HalfBits)
    IN  IF lo >= Pow2(HalfBits - 1) THEN lo + (WordMod - Pow2(HalfBits)) ELSE lo

write_32(c, rd, value) ==
    IF rd # 0 THEN [c EXCEPT !.registers[rd] = SignExtendHalf(value)] ELSE c

write_fd(c, frd, value) == [c EXCEPT !.fp_registers[frd] = value]
\* NaN-boxing: the upper half of the register is all ones
write_fs(c, frd, value) ==
    [c EXCEPT !.fp_registers[frd] = (value % Pow2(HalfBits)) + (WordMod - Pow2(HalfBits))]

global_sfence(C, mask) ==
    [i \in DOMAIN C |->
        IF Shr(mask, i) % 2 = 0 THEN C[i]
        ELSE clear_local_icache(clear_local_cache(C[i]))]

RECURSIVE wrapping_mul(_, _)
\* a * b in the word, by doubling (release build: the product wraps)
wrapping_mul(a, b) ==
    IF b = 0 THEN 0
    ELSE wrapping_add(Shl(wrapping_mul(a, b \div 2), 1), IF b % 2 = 1 THEN a ELSE 0)

SbiRet(w, h, v) == StepOk([w EXCEPT !.C[h].registers[10] = v])

\* The hart mask of a remote call: all harts when the pointer is null,
\* otherwise the word read through translate(..).unwrap()
SbiMask(w, arg0, t) ==
    IF arg0 = 0 THEN Ok(WordMax)
    ELSE IF t.ok THEN Ok(read_memory(w.m, t.val)) ELSE Err(0)

SbiSendIpi(w, h, mask) ==
    IF ~mask.ok THEN Dead(w)
    ELSE SbiRet([w EXCEPT !.C = [i \in DOMAIN w.C |->
                    IF Shr(mask.val, i) % 2 = 0 THEN w.C[i]
                    ELSE [w.C[i] EXCEPT !.shared = assert(@, 2)]]], h, 0)

SbiRemoteFenceI(w, h, mask) ==
    IF ~mask.ok THEN Dead(w)
    ELSE SbiRet([w EXCEPT !.C = [i \in DOMAIN w.C |->
                    IF Shr(mask.val, i) % 2 = 0 THEN w.C[i]
                    ELSE clear_local_icache(w.C[i])]], h, 0)

SbiRemoteSfence(w, h, mask) ==
    IF ~mask.ok THEN Dead(w)
    ELSE SbiRet([w EXCEPT !.C = global_sfence(w.C, mask.val)], h, 0)

SbiSetTimer(w, h, tc) ==
    SbiRet([w EXCEPT !.C[h].timecmp = tc,
                     !.C[h].shared = deassert(@, 32),
                     !.ev = Append(@, [cycle |-> tc, hart |-> h])], h, 0)

sbi_call(w, h, nr, arg0, ext) ==
    CASE nr = 0 -> SbiSetTimer(w, h, wrapping_mul(arg0, 100))
      [] nr = 1 -> SbiRet(w, h, 0)
      [] nr = 2 -> SbiRet(w, h, ext)
      [] nr = 3 -> SbiRet([w EXCEPT !.C[h].shared = deassert(@, 2)], h, 0)
      [] nr = 4 ->
           SbiSendIpi(w, h, SbiMask(w, 1, translate(w.C[h], w.m, arg0, FALSE)))
      [] nr = 5 ->
           SbiRemoteFenceI(w, h, SbiMask(w, arg0, translate(w.C[h], w.m, arg0, FALSE)))
      [] nr \in {6, 7} ->
           SbiRemoteSfence(w, h, SbiMask(w, arg0, translate(w.C[h], w.m, arg0, FALSE)))
      [] OTHER -> Dead(w)

\* Effective address of a load, store or AMO
EffAddr(c, op) == wrapping_add(read_reg(c, op.rs1), op.imm)

\* The Result of an access, turned into the Result of the step
Access(w, h, r, done) == IF r.ok THEN StepOk(done) ELSE StepErr(SetCtx(w, h, r.ctx))

FsOf(c, fp) == IF fp THEN test_and_set_fs(c) ELSE Res(TRUE, 0, c)

\* Variant of LoadDone: the destination is cleared before the access is known to succeed
LoadDoneEager(w, h, op, fp, r) ==
    Access(w, h, [r EXCEPT !.ctx = write_reg(@, op.rd, 0)],
           SetCtx(w, h, IF fp THEN write_fd(r.ctx, op.rd, read_memory(w.m, r.val))
                              ELSE write_reg(r.ctx, op.rd, read_memory(w.m, r.val))))

LoadDone(w, h, op, fp, r) ==
    Access(w, h, r,
           SetCtx(w, h, IF fp THEN write_fd(r.ctx, op.rd, read_memory(w.m, r.val))
                              ELSE write_reg(r.ctx, op.rd, read_memory(w.m, r.val))))

LoadAt(w, h, c, op, align, fp, vaddr) ==
    IF vaddr % align # 0 THEN StepErr(SetCtx(w, h, Fault(c, 4, vaddr)))
    ELSE LoadDone(w, h, op, fp, read_vaddr(c, w.m, vaddr))

LoadFrom(w, h, op, align, fp, fs) ==
    IF ~fs.ok THEN StepErr(SetCtx(w, h, fs.ctx))
    ELSE LoadAt(w, h, fs.ctx, op, align, fp, EffAddr(fs.ctx, op))

\* A load: alignment check, read_vaddr, then the write-back
step_load(w, h, op, align, fp) == LoadFrom(w, h, op, align, fp, FsOf(w.C[h], fp))

StoreDone(w, h, v, r) ==
    Access(w, h, r, [SetCtx(w, h, r.ctx) EXCEPT !.m = write_memory(@, r.val, v)])

StoreAt(w, h, c, op, align, fp, vaddr) ==
    IF vaddr % align # 0 THEN StepErr(SetCtx(w, h, Fault(c, 5, vaddr)))
    ELSE StoreDone(w, h, IF fp THEN c.fp_registers[op.rs2] ELSE read_reg(c, op.rs2),
                   ptr_vaddr_x(c, w.m, vaddr))

StoreFrom(w, h, op, align, fp, fs) ==
    IF ~fs.ok THEN StepErr(SetCtx(w, h, fs.ctx))
    ELSE StoreAt(w, h, fs.ctx, op, align, fp, EffAddr(fs.ctx, op))

\* A store: alignment check, ptr_vaddr_x, then the write to memory
step_store(w, h, op, align, fp) == StoreFrom(w, h, op, align, fp, FsOf(w.C[h], fp))

\* The body of an atomic once its address is translated: cur is the word
\* at the address, src the value of rs2
AtomicDone(w, h, op, addr, src, r, cur) ==
    CASE op.op = "LrD" ->
            SetCtx(w, h, [write_reg(r.ctx, op.rd, cur) EXCEPT
                              !.lr_addr = addr, !.lr_value = cur])
      [] op.op = "ScD" ->
            IF cur = r.ctx.lr_value
            THEN [SetCtx(w, h, write_reg(r.ctx, op.rd, 0))
                    EXCEPT !.m = write_memory(@, r.val, src)]
            ELSE SetCtx(w, h, write_reg(r.ctx, op.rd, 1))
      [] op.op = "AmoswapD" ->
            [SetCtx(w, h, write_reg(r.ctx, op.rd, cur))
                EXCEPT !.m = write_memory(@, r.val, src)]
      [] op.op = "AmoaddD" ->
            [SetCtx(w, h, write_reg(r.ctx, op.rd, cur))
                EXCEPT !.m = write_memory(@, r.val, wrapping_add(cur, src))]

AtomicAt(w, h, op, addr, src, r) ==
    Access(w, h, r, AtomicDone(w, h, op, addr, src, r, read_memory(w.m, r.val)))

\* AMOs and LR/SC address the register directly and trap with cause 5
step_atomic(w, h, op) ==
    IF read_reg(w.C[h], op.rs1) % 8 # 0
    THEN StepErr(SetCtx(w, h, Fault(w.C[h], 5, read_reg(w.C[h], op.rs1))))
    ELSE IF op.op = "ScD" /\ read_reg(w.C[h], op.rs1) # w.C[h].lr_addr
    THEN StepOk(SetCtx(w, h, write_reg(w.C[h], op.rd, 1)))
    ELSE AtomicAt(w, h, op, read_reg(w.C[h], op.rs1), read_reg(w.C[h], op.rs2),
                  ptr_vaddr_x(w.C[h], w.m, read_reg(w.C[h], op.rs1)))

CsrIsImm(op) == op.op \in {"Csrrwi", "Csrrsi", "Csrrci"}
CsrIsRw(op) == op.op \in {"Csrrw", "Csrrwi"}
CsrOperand(c, op) == IF CsrIsImm(op) THEN op.imm ELSE read_reg(c, op.rs1)
CsrDoWrite(op) == CsrIsRw(op) \/ (IF CsrIsImm(op) THEN op.imm # 0 ELSE op.rs1 # 0)
CsrValue(c, op, result) ==
    CASE CsrIsRw(op) -> CsrOperand(c, op)
      [] op.op \in {"Csrrs", "Csrrsi"} -> BitOr(result, CsrOperand(c, op))
      [] OTHER -> BitAndNot(result, CsrOperand(c, op))

CsrWritten(w, h, op, result, wr) ==
    Access(w, h, wr, SetCtx(w, h, write_reg(wr.ctx, op.rd, result)))

CsrRead(w, h, op, rd) ==
    IF ~rd.ok THEN StepErr(SetCtx(w, h, rd.ctx))
    ELSE CsrWritten(w, h, op, rd.val,
            IF CsrDoWrite(op) THEN write_csr(rd.ctx, op.csr, CsrValue(rd.ctx, op, rd.val))
            ELSE Res(TRUE, 0, rd.ctx))

\* Csrrw/Csrrwi read only when rd != 0; Csrrs/Csrrc write only when the
\* source operand (register index or immediate) is non-zero
step_csr(w, h, op, now) ==
    CsrRead(w, h, op,
            IF ~CsrIsRw(op) \/ op.rd # 0 THEN read_csr(w.C[h], op.csr, now)
            ELSE Res(TRUE, 0, w.C[h]))

\* set_rm!: FS must be on, and the (possibly dynamic) rounding mode valid
set_rm(c, rm) ==
    LET fs == test_and_set_fs(c)
        mode == IF rm = 7 THEN Shr(fs.ctx.fcsr, 5) ELSE rm
    IN  IF ~fs.ok THEN fs
        ELSE IF mode > 4 THEN Res(FALSE, 0, Fault(fs.ctx, 2, 0))
        ELSE fs

SignBit == Pow2(XLEN - 1)

BranchTarget(c, op) == wrapping_add(wrapping_sub(c.pc, 4), op.imm)

step_Jalr(c, op) ==
    LET new_pc == BitAndNot(wrapping_add(read_reg(c, op.rs1), op.imm), 1)
    IN  [write_reg(c, op.rd, c.pc) EXCEPT !.pc = new_pc]

step_Jal(c, op) == [write_reg(c, op.rd, c.pc) EXCEPT !.pc = BranchTarget(c, op)]

\* Variant of step_Sret: SPP is not cleared
step_SretKeepSpp(c) ==
    LET c1 == [c EXCEPT !.pc = c.sepc,
                        !.prv = IF BitAnd(c.sstatus, 256) # 0 THEN 1 ELSE 0,
                        !.sstatus = BitOr(SetBit(@, 2, BitAnd(@, 32) # 0), 32)]
    IN  IF c1.prv = 0 THEN clear_local_icache(clear_local_cache(c1)) ELSE c1

step_Sret(c) ==
    LET c1 == [c EXCEPT !.pc = c.sepc]
        c2 == IF BitAnd(c1.sstatus, 256) # 0
              THEN [c1 EXCEPT !.prv = 1]
              ELSE clear_local_icache(clear_local_cache([c1 EXCEPT !.prv = 0]))
        c3 == IF BitAnd(c2.sstatus, 32) # 0
              THEN [c2 EXCEPT !.sstatus = BitOr(@, 2)]
              ELSE [c2 EXCEPT !.sstatus = BitAndNot(@, 2)]
    IN  [c3 EXCEPT !.sstatus = BitAndNot(BitOr(@, 32), 256)]

step(w, h, op, now) ==
    LET c == w.C[h]
        Done(c1) == StepOk(SetCtx(w, h, c1))
        Trap(cause, tval) == StepErr(SetCtx(w, h, Fault(c, cause, tval)))
        Branch(taken) == Done(IF taken THEN [c EXCEPT !.pc = BranchTarget(c, op)] ELSE c)
        Fp(c1) == LET fs == test_and_set_fs(c)
                  IN  IF fs.ok THEN Done(c1) ELSE StepErr(SetCtx(w, h, fs.ctx))
        FsOn(c1) == [c1 EXCEPT !.sstatus = BitOr(@, 24576)]
    IN  CASE op.op = "Illegal" -> Trap(2, 0)
          [] op.op = "Ld" -> step_load(w, h, op, 8, FALSE)
          [] op.op = "Sd" -> step_store(w, h, op, 8, FALSE)
          [] op.op = "Addi" ->
               Done(write_reg(c, op.rd, wrapping_add(read_reg(c, op.rs1), op.imm)))
          [] op.op = "Add" ->
               Done(write_reg(c, op.rd,
                              wrapping_add(read_reg(c, op.rs1), read_reg(c, op.rs2))))
          [] op.op = "Slli" -> Done(write_reg(c, op.rd, Shl(read_reg(c, op.rs1), op.imm)))
          [] op.op = "Lui" -> Done(write_reg(c, op.rd, op.imm))
          [] op.op = "Auipc" -> Done(write_reg(c, op.rd, BranchTarget(c, op)))
          [] op.op = "Fence" -> Done(c)
          [] op.op = "FenceI" -> Done(clear_local_icache(c))
          [] op.op = "Beq" -> Branch(read_reg(c, op.rs1) = read_reg(c, op.rs2))
          [] op.op = "Bne" -> Branch(read_reg(c, op.rs1) # read_reg(c, op.rs2))
          [] op.op = "Bltu" -> Branch(read_reg(c, op.rs1) < read_reg(c, op.rs2))
          [] op.op = "Jalr" -> Done(step_Jalr(c, op))
          [] op.op = "Jal" -> Done(step_Jal(c, op))
          [] op.op = "Ecall" ->
               IF c.prv = 0 THEN Trap(8, 0)
               ELSE sbi_call(w, h, c.registers[17], c.registers[10], op.ext)
          [] op.op = "Ebreak" -> Trap(3, 0)
          [] op.op \in {"Csrrw", "Csrrs", "Csrrc", "Csrrwi", "Csrrsi", "Csrrci"} ->
               step_csr(w, h, op, now)
          [] op.op = "Fld" -> step_load(w, h, op, 4, TRUE)
          [] op.op = "Fsd" -> step_store(w, h, op, 8, TRUE)
          [] op.op = "FsgnjD" ->
               Fp(write_fd(FsOn(c), op.rd,
                    (c.fp_registers[op.rs1] % SignBit)
                    + SignBit * (c.fp_registers[op.rs2] \div SignBit)))
          [] op.op = "FmvXD" -> Fp(write_reg(FsOn(c), op.rd, c.fp_registers[op.rs1]))
          [] op.op = "FmvXW" -> Fp(write_32(FsOn(c), op.rd, c.fp_registers[op.rs1]))
          [] op.op = "FmvDX" -> Fp(write_fd(FsOn(c), op.rd, read_reg(c, op.rs1)))
          [] op.op = "FmvWX" -> Fp(write_fs(FsOn(c), op.rd, read_reg(c, op.rs1)))
          [] op.op = "FcvtLD" ->
               \* the converted value and the exception flags come from softfp
               LET r == set_rm(c, op.rm)
               IN  IF ~r.ok THEN StepErr(SetCtx(w, h, r.ctx))
                   ELSE Done([write_reg(r.ctx, op.rd, op.ext) EXCEPT
                                 !.fcsr = BitOr(@, op.imm)])
          [] op.op = "FcvtDL" ->
               LET r == set_rm(c, op.rm)
               IN  IF ~r.ok THEN StepErr(SetCtx(w, h, r.ctx))
                   ELSE Done([write_fd(r.ctx, op.rd, op.ext) EXCEPT
                                 !.fcsr = BitOr(@, op.imm)])
          [] op.op \in {"LrD", "ScD", "AmoswapD", "AmoaddD"} -> step_atomic(w, h, op)
          [] op.op = "Sret" -> IF c.prv # 1 THEN Trap(2, 0) ELSE Done(step_Sret(c))
          [] op.op = "Wfi" -> IF c.prv # 1 THEN Trap(2, 0) ELSE Done(c)
          [] op.op = "SfenceVma" ->
               IF c.prv # 1 THEN Trap(2, 0)
               ELSE StepOk([w EXCEPT !.C = global_sfence(w.C, Pow2(c.hartid))])

----------------------------------------------------------------------------
(* Blocks and the block driver *)

\* A block entry is [inst, compressed]; a DbtBlock is [block, pc_start, pc_end].
Entry(op, compressed) == [inst |-> op, compressed |-> compressed]
OpSize(e) == IF e.compressed THEN 2 ELSE 4

RECURSIVE PrefixSize(_, _)
\* Bytes taken by the first n entries of a block
PrefixSize(ops, n) == IF n = 0 THEN 0 ELSE PrefixSize(ops, n - 1) + OpSize(ops[n])

\* Op::can_change_control_flow belongs to the riscv crate: branches and
\* jumps, sret, the ops that always trap, the fences that invalidate
\* translations or code, and a CSR op on satp.
can_change_control_flow(op) ==
    \/ op.op \in {"Beq", "Bne", "Bltu", "Jal", "Jalr", "Sret", "Ecall", "Ebreak",
                  "Illegal", "FenceI", "SfenceVma"}
    \/ op.csr = "Satp"

SamePage(a, b) == PageOf(a) = PageOf(b)

\* What decode_block can return for code at start: it stops at the first
\* entry that can change control flow or ends beyond the page of start.
DecodedBlock(ops, start) ==
    /\ Len(ops) >= 1
    /\ \A i \in 1 .. Len(ops) - 1 :
          /\ ~can_change_control_flow(ops[i].inst)
          /\ SamePage(start + PrefixSize(ops, i), start)
    /\ \/ can_change_control_flow(ops[Len(ops)].inst)
       \/ ~SamePage(start + PrefixSize(ops, Len(ops)), start)

\* Variant of interp_block_fail: every op is taken to be four bytes long
interp_block_fail_wide(c, e, len, i) ==
    trap([c EXCEPT !.pc = wrapping_sub(c.pc, 4),
                   !.instret = c.instret - (len - i)])

\* Variant of interp_block_fail: the failed op stays counted
interp_block_fail_counted(c, e, len, i) ==
    trap([c EXCEPT !.pc = wrapping_sub(c.pc, OpSize(e)),
                   !.instret = c.instret - (len - i - 1)])

\* The rewind of a failed op and the delivery of its trap
interp_block_fail(c, e, len, i) ==
    trap([c EXCEPT !.pc = wrapping_sub(c.pc, OpSize(e)),
                   !.instret = c.instret - (len - i)])

RECURSIVE interp_ops(_, _, _, _)

\* What the loop does with the Result r of step for entry i
InterpStepped(h, i, now, e, len, r) ==
    IF ~r.w.run THEN [w |-> r.w, fail |-> -1]
    ELSE IF ~r.ok
        THEN [w |-> SetCtx(r.w, h, interp_block_fail(r.w.C[h], e, len, i)), fail |-> i]
    ELSE interp_ops(r.w, h, i + 1, now)

\* Entry i once the forced I$ access tr is made: unwrap, advance pc, step
InterpFetched(w, h, i, now, e, len, tr) ==
    IF ~tr.ok THEN [w |-> [SetCtx(w, h, tr.ctx) EXCEPT !.run = FALSE], fail |-> -1]
    ELSE InterpStepped(h, i, now, e, len,
            step(SetCtx(w, h, [tr.ctx EXCEPT !.pc = wrapping_add(@, OpSize(e))]),
                 h, e.inst, now))

AtLineStart(pc) == pc % PAGE_SIZE = 0 \/ pc % PAGE_SIZE = PAGE_SIZE - 2

\* The loop of interp_block from entry i (0-based) on; returns [w, fail]:
\* fail is the index of the op that failed, or -1.
interp_ops(w, h, i, now) ==
    IF i >= Len(w.C[h].cur_block.block) THEN [w |-> w, fail |-> -1]
    ELSE InterpFetched(w, h, i, now, w.C[h].cur_block.block[i + 1],
                       Len(w.C[h].cur_block.block),
                       IF AtLineStart(w.C[h].pc)
                       THEN insn_translate(w.C[h], w.m, w.C[h].pc)
                       ELSE Res(TRUE, 0, w.C[h]))

interp_block(w, h, now) ==
    interp_ops([w EXCEPT !.C[h].instret = @ + Len(w.C[h].cur_block.block)], h, 0, now)

\* The block find_block installs for the physical pc of a fetch
FoundBlock(w, h, ops, t) ==
    IF ~t.ok THEN [w |-> SetCtx(w, h, trap(t.ctx)), found |-> FALSE]
    ELSE [w |-> SetCtx(w, h, [t.ctx EXCEPT !.cur_block =
                    [block |-> ops, pc_start |-> t.val,
                     pc_end |-> t.val + PrefixSize(ops, Len(ops))]]),
          found |-> TRUE]

\* find_block: the instruction fetch at pc, then the block for it.  ops is
\* what decode_block reads from guest memory at the physical pc.  Returns
\* [w, found]: found is FALSE when the fetch trapped (no_op is run).
find_block(w, h, ops) == FoundBlock(w, h, ops, insn_translate(w.C[h], w.m, w.C[h].pc))

RunFound(h, now, f) ==
    IF f.found THEN interp_block(f.w, h, now) ELSE [w |-> f.w, fail |-> -1]

\* One round of the hart's loop: find_block, then the block it returned
run_block(w, h, ops, now) == RunFound(h, now, find_block(w, h, ops))

----------------------------------------------------------------------------
(* Initial state *)

NoBlock == [block |-> <<>>, pc_start |-> 0, pc_end |-> 0]

\* 0xCCCC...CC
RegPoison == ((WordMod - 1) \div 5) * 4

\* main(): the Context of hart i.  pc and prv are set by the loader: the
\* kernel is entered in supervisor mode at entry.
NewContext(i, entry) ==
    [registers |-> [r \in 0 .. 31 |-> IF r = 0 THEN 0 ELSE RegPoison],
     pc |-> entry,
     instret |-> 0,
     shared |-> [new_interrupts |-> 0, sip |-> 0],
     scause |-> 0,
     stval |-> 0,
     fp_registers |-> [r \in 0 .. 31 |-> WordMax],
     fcsr |-> 0,
     lr_addr |-> 0,
     lr_value |-> 0,
     sstatus |-> 24576,
     sie |-> 0,
     stvec |-> 0,
     sscratch |-> 0,
     sepc |-> 0,
     satp |-> 0,
     timecmp |-> WordMax,
     prv |-> 1,
     hartid |-> i,
     minstret |-> 0,
     line |-> EmptyCache,
     i_line |-> EmptyCache,
     cur_block |-> NoBlock]

CurWorld == World(CONTEXTS, memory, events, running)

\* ExitReason
SetThreaded(threaded) == [kind |-> "SetThreaded", threaded |-> threaded]
Exit(code) == [kind |-> "Exit", code |-> code]

\* Option
None == [some |-> FALSE]
Some(v) == [some |-> TRUE, val |-> v]

\* EventLoop::new, beside the empty heap: next_event is u64::max_value()
EventLoop_new == [shutdown |-> FALSE, next_event |-> WordMax, notified |-> FALSE]

\* A console thread that has read nothing of the bytes typed
Console_new(typed) == [stdin |-> typed, tx |-> <<>>, raised |-> 0]

\* The event loop as constructed, no exit requested, nothing typed
\* No fiber parked, no device attached
DevicesAtRest ==
    /\ WAIT_LIST_MAP = <<>>
    /\ MMIO = <<>>

HostAtRest ==
    /\ EVENT_LOOP = EventLoop_new
    /\ FLAGS = [thread |-> FALSE]
    /\ EXIT_REASON = None
    /\ console = Console_new(<<>>)
    /\ DevicesAtRest

\* No block built, every hart between two blocks, no assert in progress
ThreadsAtRest(harts) ==
    /\ ICACHE = <<>>
    /\ CODE_CACHE = [cursor |-> 0, bytes |-> <<>>]
    /\ at = [h \in harts |-> [phase |-> "find", i |-> 0]]
    /\ asserts = {}
    /\ history = [log |-> <<>>, seen |-> [h \in harts |-> 0]]

\* The world w becomes the state
Commit(w) ==
    /\ CONTEXTS' = w.C
    /\ memory' = w.m
    /\ events' = w.ev
    /\ running' = w.run

Fetchable(ops, t) == t.ok => DecodedBlock(ops, t.val)

IsMemOp(op) ==
    op.op \in {"Ld", "Sd", "Fld", "Fsd", "LrD", "ScD", "AmoswapD", "AmoaddD"}

RECURSIVE NumMemOps(_, _)
\* The memory ops among the first n entries of a block
NumMemOps(ops, n) ==
    IF n = 0 THEN 0
    ELSE NumMemOps(ops, n - 1) + (IF IsMemOp(ops[n].inst) THEN 1 ELSE 0)

\* The hart h runs one block whose decoded form is ops; the model schedules
\* it while it has retired no more than limit instructions
Dispatch(h, ops, limit) ==
    /\ running
    /\ CONTEXTS[h].instret + Len(ops) <= limit
    /\ CONTEXTS[h].minstret + NumMemOps(ops, Len(ops)) <= MaxMinstret
    /\ Fetchable(ops, insn_translate(CONTEXTS[h], memory, CONTEXTS[h].pc))
    /\ Commit(run_block(CurWorld, h, ops, cycle).w)
    /\ UNCHANGED <<cycle, host, ICACHE, CODE_CACHE, at, asserts, history>>

----------------------------------------------------------------------------
(* Specification SpecHart: one hart entered in supervisor mode with paging *)
(* off.  The guest code is any arrangement of the blocks below: integer,   *)
(* CSR, jump, memory, atomic, FP-move and privileged ops, with the         *)
(* immediates the decoder can produce.                                     *)

Neg(k) == WordMod - k

Op4(op) == Entry(op, FALSE)
Op2(op) == Entry(op, TRUE)
JumpNext == Op4(MkOp("Jal", 0, 0, 0, 4))

LinkBack == <<Op4(MkOp("Jal", 1, 0, 0, Neg(4)))>>
JumpOdd == <<Op4(MkOp("Jalr", 0, 1, 0, 3))>>
ZeroThenBranch ==
    <<Op4(MkOp("Addi", 0, 1, 0, 1)), Op4(MkOp("Beq", 0, 0, 0, 16))>>
FaultAfterMixed ==
    <<Op2(MkOp("Lui", 2, 0, 0, 2 * PAGE_SIZE)), Op4(MkOp("Addi", 2, 2, 0, 4)),
      Op2(MkOp("Ld", 3, 2, 0, 0)), JumpNext>>
VectoredStvec ==
    <<Op4(MkOp("Lui", 5, 0, 0, 3 * PAGE_SIZE)), Op2(MkOp("Addi", 5, 5, 0, 1)),
      Op4(MkCsrOp("Csrrw", 0, 5, 0, "Stvec")), Op4(MkOp("Illegal", 0, 0, 0, 0))>>
ReservedStvec ==
    <<Op2(MkOp("Addi", 6, 0, 0, 2)), Op4(MkCsrOp("Csrrw", 0, 6, 0, "Stvec")),
      Op4(MkOp("Sret", 0, 0, 0, 0))>>
OddSepc ==
    <<Op4(MkCsrOp("Csrrsi", 1, 0, 5, "Sepc")), Op4(MkOp("Sret", 0, 0, 0, 0))>>
SetSppSpie ==
    <<Op4(MkOp("Addi", 7, 0, 0, 256 + 32)), Op4(MkCsrOp("Csrrs", 0, 7, 0, "Sstatus")),
      Op4(MkOp("Sret", 0, 0, 0, 0))>>
LoadZero == <<Op4(MkOp("Ld", 0, 0, 0, 8)), Op2(MkOp("Jal", 0, 0, 0, 8))>>
StoreMoveCount ==
    <<Op4(MkOp("Sd", 0, 0, 1, 16)), Op4(MkFpOp("FmvXW", 0, 1, 0, 0, 0)),
      Op4(MkCsrOp("Csrrw", 0, 1, 0, "Instret")), Op2(MkOp("Ebreak", 0, 0, 0, 0))>>
EnvCall ==
    <<Op2(MkOp("Addi", 17, 0, 0, 2)), Op4([MkOp("Ecall", 0, 0, 0, 0) EXCEPT !.ext = 5])>>
AmoZero == <<Op4(MkOp("AmoaddD", 0, 0, 1, 0)), JumpNext>>

HartBlocks ==
    { LinkBack, JumpOdd, ZeroThenBranch, FaultAfterMixed, VectoredStvec, ReservedStvec,
      OddSepc, SetSppSpie, LoadZero, StoreMoveCount, EnvCall, AmoZero }

InitHart ==
    /\ CONTEXTS = [h \in {0} |-> NewContext(h, PAGE_SIZE)]
    /\ memory = <<>>
    /\ events = <<>>
    /\ cycle = 0
    /\ HostAtRest
    /\ running = TRUE
    /\ ThreadsAtRest({0})

NextHart == \E h \in DOMAIN CONTEXTS : \E ops \in HartBlocks : Dispatch(h, ops, MaxInstret)

SpecHart == InitHart /\ [][NextHart]_vars

----------------------------------------------------------------------------
(* Specification SpecMmu: one hart whose boot image holds a static SV39    *)
(* page table.  Root table in page 8, one mid-level table in page 9, one   *)
(* leaf table in page 10.  Pages 0, 1, 2 and 10 are mapped to themselves,  *)
(* page 3 is a second mapping of page 2, and the second mid-level entry is *)
(* a 2 MiB leaf onto low memory.  The guest turns paging on and off, reads *)
(* and writes data, its own code and the leaf table, fences, and drops to  *)
(* user mode.                                                              *)

Pte(ppn, flags) == ppn * 1024 + flags

\* V | R | W | X | A | D
LeafFlags == 1 + 2 + 4 + 8 + 64 + 128

MmuImage ==
    (8 * PAGE_SIZE :> Pte(9, 1)) @@
    (9 * PAGE_SIZE :> Pte(10, 1)) @@
    (9 * PAGE_SIZE + 8 :> Pte(0, LeafFlags)) @@
    (10 * PAGE_SIZE :> Pte(0, LeafFlags)) @@
    (10 * PAGE_SIZE + 8 :> Pte(1, LeafFlags)) @@
    (10 * PAGE_SIZE + 16 :> Pte(2, LeafFlags)) @@
    (10 * PAGE_SIZE + 24 :> Pte(2, LeafFlags)) @@
    (10 * PAGE_SIZE + 80 :> Pte(10, LeafFlags))

PagingOn ==
    <<Op2(MkOp("Addi", 3, 0, 0, 8)), Op2(MkOp("Slli", 3, 3, 0, SATP_MODE_SHIFT)),
      Op4(MkOp("Addi", 3, 3, 0, 8)), Op4(MkCsrOp("Csrrw", 0, 3, 0, "Satp"))>>
BadMode ==
    <<Op2(MkOp("Addi", 3, 0, 0, 1)), Op2(MkOp("Slli", 3, 3, 0, SATP_MODE_SHIFT)),
      Op4(MkCsrOp("Csrrw", 0, 3, 0, "Satp"))>>
PagingOff == <<Op4(MkCsrOp("Csrrw", 0, 0, 0, "Satp"))>>
TouchData ==
    <<Op2(MkOp("Lui", 2, 0, 0, 2 * PAGE_SIZE)), Op2(MkOp("Ld", 4, 2, 0, 0)), JumpNext>>
WriteAlias ==
    <<Op2(MkOp("Lui", 2, 0, 0, 3 * PAGE_SIZE)), Op4(MkOp("Sd", 0, 2, 2, 8)), JumpNext>>
WriteCode ==
    <<Op4(MkOp("Auipc", 2, 0, 0, 0)), Op4(MkOp("Sd", 0, 2, 2, 64)), JumpNext>>
RemapCode ==
    <<Op4(MkOp("Lui", 5, 0, 0, 10 * PAGE_SIZE)), Op4(MkOp("Addi", 1, 0, 0, LeafFlags)),
      Op4(MkOp("Sd", 0, 5, 1, 8)), JumpNext>>
LoadUnmapped ==
    <<Op2(MkOp("Lui", 2, 0, 0, 5 * PAGE_SIZE)), Op4(MkOp("Ld", 4, 2, 0, 0)), JumpNext>>
FenceVma == <<Op4(MkOp("SfenceVma", 0, 0, 0, 0))>>
FenceCode == <<Op4(MkOp("FenceI", 0, 0, 0, 0))>>
DropToUser == <<Op4(MkOp("Sret", 0, 0, 0, 0))>>
UserCall == <<Op4(MkOp("Ecall", 0, 0, 0, 0))>>

MmuBlocks ==
    { PagingOn, BadMode, PagingOff, TouchData, WriteAlias, WriteCode, RemapCode,
      LoadUnmapped, FenceVma, FenceCode, DropToUser, UserCall }

InitMmu ==
    /\ CONTEXTS = [h \in {0} |-> NewContext(h, PAGE_SIZE)]
    /\ memory = MmuImage
    /\ events = <<>>
    /\ cycle = 0
    /\ HostAtRest
    /\ running = TRUE
    /\ ThreadsAtRest({0})

NextMmu == \E h \in DOMAIN CONTEXTS : \E ops \in MmuBlocks : Dispatch(h, ops, MaxMmuInstret)

SpecMmu == InitMmu /\ [][NextMmu]_vars

----------------------------------------------------------------------------
(* Interrupt check *)

RECURSIVE LowestBit(_)
\* Variant of HighestBit: the number of the lowest set bit
LowestBit(v) == IF v % 2 = 1 \/ v = 0 THEN 0 ELSE 1 + LowestBit(v \div 2)

RECURSIVE HighestBit(_)
\* 63 - leading_zeros: the number of the highest set bit of a non-zero word
HighestBit(v) == IF v <= 1 THEN 0 ELSE 1 + HighestBit(v \div 2)

\* new_interrupts.swap(0)
check_swap(c) == [c EXCEPT !.shared.new_interrupts = 0]

\* Variant of check_timer: the timer fires only after timecmp has passed
check_timer_after(c, now) ==
    IF now > c.timecmp THEN [c EXCEPT !.shared.sip = BitOr(@, 32)] ELSE c

\* the timer: sip.fetch_or(32) once the cycle has reached timecmp
check_timer(c, now) ==
    IF now >= c.timecmp THEN [c EXCEPT !.shared.sip = BitOr(@, 32)] ELSE c

\* the interrupt to take, if any: the highest bit of the pending mask
check_take(c, interrupt_mask) ==
    IF interrupt_mask = 0 THEN c
    ELSE trap(Fault(c, BitOr(Pow2(XLEN - 1), HighestBit(interrupt_mask)), 0))

check_pending(c) == check_take(c, interrupt_pending(c))

check_interrupt(c, now) == check_pending(check_timer(check_swap(c), now))

----------------------------------------------------------------------------
(* The code cache: the Heap (an arena with an allocation cursor) and the   *)
(* map from physical pc to block.  The arena is counted in cells; a cell   *)
(* holds the block whose ops, code, pc_map or DbtBlock was last written    *)
(* into it.                                                                *)

\* Cells of the arena (128 MiB in the source)
HEAP_SIZE == 32

Heap_new == [cursor |-> 0, bytes |-> [i \in 0 .. HEAP_SIZE - 1 |-> NoBlock]]

\* Variant of Rollover: only the wrap at the top clears the map
RolloverAtTop(cursor, size) == cursor + size > HEAP_SIZE

\* alloc_size: the request crosses the midpoint from below, or overflows the top
Rollover(cursor, size) ==
    \/ (cursor <= HEAP_SIZE \div 2 /\ cursor + size > HEAP_SIZE \div 2)
    \/ cursor + size > HEAP_SIZE

\* The offset alloc_size returns: 0 after an overflow of the top
AllocStart(cursor, size) ==
    IF cursor <= HEAP_SIZE \div 2 /\ cursor + size > HEAP_SIZE \div 2 THEN cursor
    ELSE IF cursor + size > HEAP_SIZE THEN 0
    ELSE cursor

\* Variant of alloc_size: the map is left as it is
alloc_size_keep(heap, ic, size) ==
    [heap |-> [heap EXCEPT !.cursor = AllocStart(heap.cursor, size) + size],
     ic |-> ic,
     ret |-> AllocStart(heap.cursor, size)]

\* Heap::alloc_size with the map it may clear: returns [heap, ic, ret]
alloc_size(heap, ic, size) ==
    [heap |-> [heap EXCEPT !.cursor = AllocStart(heap.cursor, size) + size],
     ic |-> IF Rollover(heap.cursor, size) THEN <<>> ELSE ic,
     ret |-> AllocStart(heap.cursor, size)]

\* The code and pc_map buffers come from the DBT compiler: a cell per op
CodeCells(ops) == Len(ops)
MapCells(ops) == Len(ops)

\* What find_block copies into an allocation
BlockBody(ops, start) ==
    [block |-> ops, pc_start |-> start, pc_end |-> start + PrefixSize(ops, Len(ops))]

\* copy_from_slice into the allocation a of size cells; cc is [heap, ic, cells]
Copied(cc, a, size, body) ==
    [heap |-> [a.heap EXCEPT !.bytes =
                  [i \in DOMAIN @ |-> IF a.ret <= i /\ i < a.ret + size THEN body ELSE @[i]]],
     ic |-> a.ic,
     cells |-> cc.cells \cup (a.ret .. a.ret + size - 1)]

\* alloc_slice / alloc followed by the copy
Allocated(cc, size, body) == Copied(cc, alloc_size(cc.heap, cc.ic, size), size, body)

\* The four allocations of a block build: ops, code, pc_map, DbtBlock
BuiltParts(heap, ic, ops, body) ==
    Allocated(Allocated(Allocated(Allocated(
        [heap |-> heap, ic |-> ic, cells |-> {}],
        Len(ops), body), CodeCells(ops), body), MapCells(ops), body), 1, body)

\* The block as the map and cur_block refer to it: its body and where it lies
Placed(body, cells) ==
    [block |-> body.block, pc_start |-> body.pc_start, pc_end |-> body.pc_end,
     cells |-> cells]

\* icache().insert(phys_pc, block)
Inserted(ic, k, blk) == [x \in DOMAIN ic \cup {k} |-> IF x = k THEN blk ELSE ic[x]]

\* The miss path of find_block once the parts are allocated
BuiltBlock(w, h, c, phys_pc, body, cc) ==
    [SetCtx(w, h, [c EXCEPT !.cur_block = Placed(body, cc.cells)])
        EXCEPT !.heap = cc.heap,
               !.ic = Inserted(cc.ic, phys_pc, Placed(body, cc.cells))]

\* find_block with the code cache; ops is what decode_block reads at the
\* physical pc on a miss.  w is a world with the map (ic) and the Heap (heap).
find_block_icache(w, h, ops, t) ==
    IF ~t.ok THEN [w |-> SetCtx(w, h, trap(t.ctx)), found |-> FALSE]
    ELSE IF t.val \in DOMAIN w.ic
        THEN [w |-> SetCtx(w, h, [t.ctx EXCEPT !.cur_block = w.ic[t.val]]), found |-> TRUE]
    ELSE [w |-> BuiltBlock(w, h, t.ctx, t.val, BlockBody(ops, t.val),
                           BuiltParts(w.heap, w.ic, ops, BlockBody(ops, t.val))),
          found |-> TRUE]

\* The address a store-like op hands to ptr_vaddr_x
StoreAddr(c, op) ==
    IF op.op \in {"Sd", "Fsd"} THEN EffAddr(c, op) ELSE read_reg(c, op.rs1)

\* The op reaches its ptr_vaddr_x call
TakesWritePtr(c, op) ==
    /\ op.op \in {"Sd", "Fsd", "LrD", "ScD", "AmoswapD", "AmoaddD"}
    /\ StoreAddr(c, op) % 8 = 0
    /\ op.op = "Fsd" => test_and_set_fs(c).ok
    /\ op.op = "ScD" => StoreAddr(c, op) = c.lr_addr

\* ptr_vaddr_x misses in the data cache and the translation for a write succeeds
WriteMiss(c, m, addr) ==
    /\ c.line[LineIndex(PageOf(addr))].tag # Shl(PageOf(addr), 1)
    /\ translate(c, m, addr, TRUE).ok

\* read_vaddr misses for the page of addr and the translation succeeds
ReadMiss(c, m, addr) ==
    /\ Shr(c.line[LineIndex(PageOf(addr))].tag, 1) # PageOf(addr)
    /\ translate(c, m, addr, FALSE).ok

\* Variant of InvalidateRange: only blocks of the written page are removed
InvalidateRangePage(ic, page) ==
    [k \in { x \in DOMAIN ic : ~(page <= x /\ x < page + 4096) } |-> ic[k]]

\* translate_cache_miss, write: the blocks with key in [page - 4096, page + 4096)
\* are removed from the map (saturating_sub at page 0)
InvalidateRange(ic, page) ==
    [k \in { x \in DOMAIN ic :
                ~((IF page >= 4096 THEN page - 4096 ELSE 0) <= x /\ x < page + 4096) }
        |-> ic[k]]

\* out >> 12 << 12
PageBase(paddr) == (paddr \div 4096) * 4096

\* step with the effect of a write miss on the map
step_icache(w, h, op, now) ==
    IF TakesWritePtr(w.C[h], op) /\ WriteMiss(w.C[h], w.m, StoreAddr(w.C[h], op))
    THEN [step(w, h, op, now) EXCEPT !.w.ic =
             InvalidateRange(@, PageBase(translate(w.C[h], w.m,
                                                   StoreAddr(w.C[h], op), TRUE).val))]
    ELSE step(w, h, op, now)

----------------------------------------------------------------------------
(* A hart thread, one suspension point at a time: between two blocks the   *)
(* dispatcher checks interrupts and finds the next block; inside a block   *)
(* the thread can be suspended between two ops.                            *)

CachedWorld == [C |-> CONTEXTS, m |-> memory, ev |-> events, run |-> running,
                ic |-> ICACHE, heap |-> CODE_CACHE]

CommitCached(w) ==
    /\ Commit(w)
    /\ ICACHE' = w.ic
    /\ CODE_CACHE' = w.heap

\* What the loop of interp_block does with the Result r of step for entry i:
\* [w, next, ok] with next the index of the entry to run next (len: the
\* block is left) and ok the Result of step
EntryStepped(h, i, e, len, r) ==
    IF ~r.w.run THEN [w |-> r.w, next |-> len, ok |-> FALSE]
    ELSE IF ~r.ok
        THEN [w |-> SetCtx(r.w, h, interp_block_fail(r.w.C[h], e, len, i)),
              next |-> len, ok |-> FALSE]
    ELSE [w |-> r.w, next |-> i + 1, ok |-> TRUE]

\* Entry i once the forced I$ access tr is made
EntryFetched(w, h, i, now, e, len, tr) ==
    IF ~tr.ok
    THEN [w |-> [SetCtx(w, h, tr.ctx) EXCEPT !.run = FALSE], next |-> len, ok |-> FALSE]
    ELSE EntryStepped(h, i, e, len,
            step_icache(SetCtx(w, h, [tr.ctx EXCEPT !.pc = wrapping_add(@, OpSize(e))]),
                        h, e.inst, now))

\* One iteration of the loop of interp_block, for entry e at index i
interp_entry(w, h, i, now, e, len) ==
    EntryFetched(w, h, i, now, e, len,
                 IF AtLineStart(w.C[h].pc) THEN insn_translate(w.C[h], w.m, w.C[h].pc)
                 ELSE Res(TRUE, 0, w.C[h]))

\* The arena still holds the block cb where it was built (a block that was
\* not placed in the arena has no cells)
HeldIntact(heap, cb) ==
    "cells" \in DOMAIN cb =>
        \A x \in cb.cells :
            heap.bytes[x] = [block |-> cb.block, pc_start |-> cb.pc_start,
                             pc_end |-> cb.pc_end]

\* What the thread reads as entry i of its block: the entry, or, once the
\* arena under the block was overwritten, whatever the cell of the entry holds
HeldEntries(heap, cb, i, blocks) ==
    IF HeldIntact(heap, cb) THEN {cb.block[i + 1]}
    ELSE UNION { { b[k] : k \in DOMAIN b } : b \in blocks }

\* The events of the history log
LogEvent(h, kind, addr, won) == [hart |-> h, kind |-> kind, addr |-> addr, won |-> won]

\* What entry e, run from context c with outcome r, adds to the log: a
\* load-reserved, a store-conditional with its result, or another store
Logged(log, h, c, op, r) ==
    IF ~r.ok THEN log
    ELSE CASE op.op = "LrD" -> Append(log, LogEvent(h, "lr", StoreAddr(c, op), TRUE))
           [] op.op = "ScD" /\ op.rd # 0 ->
                Append(log, LogEvent(h, "sc", StoreAddr(c, op),
                                     read_reg(r.w.C[h], op.rd) = 0))
           [] op.op \in {"Sd", "Fsd", "AmoswapD", "AmoaddD"} ->
                Append(log, LogEvent(h, "st", StoreAddr(c, op), TRUE))
           [] OTHER -> log

\* The thread of hart h is between two blocks
BetweenBlocks == [phase |-> "find", i |-> 0]

\* The state after the dispatcher found (or failed to find) a block
Entered(h, f) ==
    /\ CommitCached(IF f.found
                    THEN [f.w EXCEPT !.C[h].instret = @ + Len(f.w.C[h].cur_block.block)]
                    ELSE f.w)
    /\ at' = [at EXCEPT ![h] = IF f.found THEN [phase |-> "block", i |-> 0]
                                ELSE BetweenBlocks]
    /\ UNCHANGED <<cycle, host, asserts, history>>

\* Between two blocks: the interrupt check, then find_block for a code
\* cache that never fills; ops is the decoded form of the code at pc
EnterFrom(h, ops, limit, c) ==
    /\ c.instret + Len(ops) <= limit
    /\ Fetchable(ops, insn_translate(c, memory, c.pc))
    /\ Entered(h, find_block(SetCtx(CachedWorld, h, c), h, ops))

Enter(h, ops, limit) ==
    /\ running
    /\ at[h].phase = "find"
    /\ EnterFrom(h, ops, limit, check_interrupt(CONTEXTS[h], cycle))

\* Between two blocks, with the code cache
EnterCachedFrom(h, ops, limit, c) ==
    /\ c.instret + Len(ops) <= limit
    /\ Fetchable(ops, insn_translate(c, memory, c.pc))
    /\ Entered(h, find_block_icache(SetCtx(CachedWorld, h, c), h, ops,
                                    insn_translate(c, memory, c.pc)))

EnterCached(h, ops, limit) ==
    /\ running
    /\ at[h].phase = "find"
    /\ EnterCachedFrom(h, ops, limit, check_interrupt(CONTEXTS[h], cycle))

\* The state after entry e of the block of hart h has run with outcome r
EntryRan(h, e, len, r) ==
    /\ CommitCached(r.w)
    /\ at' = [at EXCEPT ![h] = IF r.next >= len THEN BetweenBlocks
                                ELSE [phase |-> "block", i |-> r.next]]
    /\ history' = [history EXCEPT !.log = Logged(@, h, CONTEXTS[h], e.inst, r)]
    /\ UNCHANGED <<cycle, host, asserts>>

\* Inside a block: the thread runs the entry it is at
RunEntry(h, blocks) ==
    /\ running
    /\ at[h].phase = "block"
    /\ \E e \in HeldEntries(CODE_CACHE, CONTEXTS[h].cur_block, at[h].i, blocks) :
          EntryRan(h, e, Len(CONTEXTS[h].cur_block.block),
                   interp_entry(CachedWorld, h, at[h].i, cycle, e,
                                Len(CONTEXTS[h].cur_block.block)))

----------------------------------------------------------------------------
(* Specification SpecSmp: two harts in supervisor mode, paging off, each    *)
(* free to run the blocks below in any order and interleaved op by op.     *)
(* The blocks load-reserve, store-conditionally, store and swap the one    *)
(* doubleword at the start of page 2.                                      *)

\* Instructions a hart may retire in SpecSmp
MaxSmpInstret == 5

Reserve ==
    <<Op4(MkOp("Lui", 2, 0, 0, 2 * PAGE_SIZE)), Op4(MkOp("LrD", 3, 2, 0, 0)), JumpNext>>
CondSame == <<Op4(MkOp("ScD", 4, 2, 3, 0)), JumpNext>>
CondNew == <<Op4(MkOp("ScD", 4, 2, 1, 0)), JumpNext>>
StoreZero ==
    <<Op4(MkOp("Lui", 2, 0, 0, 2 * PAGE_SIZE)), Op4(MkOp("Sd", 0, 2, 0, 0)), JumpNext>>
SwapIn ==
    <<Op4(MkOp("Lui", 2, 0, 0, 2 * PAGE_SIZE)), Op4(MkOp("AmoswapD", 6, 2, 1, 0)), JumpNext>>

SmpBlocks == { Reserve, CondSame, CondNew, StoreZero, SwapIn }

InitSmp ==
    /\ CONTEXTS = [h \in {0, 1} |-> NewContext(h, PAGE_SIZE)]
    /\ memory = <<>>
    /\ events = <<>>
    /\ cycle = 0
    /\ HostAtRest
    /\ running = TRUE
    /\ ThreadsAtRest({0, 1})

NextSmp ==
    \E h \in DOMAIN CONTEXTS :
        \/ \E ops \in SmpBlocks : Enter(h, ops, MaxSmpInstret)
        \/ RunEntry(h, SmpBlocks)

SpecSmp == InitSmp /\ [][NextSmp]_vars

----------------------------------------------------------------------------
(* Specification SpecIrq: one hart with its interrupt sources.  Another    *)
(* thread (a remote hart in SBI call 4, a device) calls assert in two      *)
(* atomic accesses, fetch_or on sip and then alert; check_interrupt on the *)
(* hart's thread is three accesses: the swap of new_interrupts, the timer  *)
(* fetch_or, and the load of sip in interrupt_pending.  The clock runs     *)
(* free of the hart and the event loop runs the handlers that are due.     *)

\* Instructions the hart may retire in SpecIrq
MaxIrqInstret == 8
\* The clock stops at this cycle
MaxCycle == 100
\* Cycles per step of the clock
CLOCK_STEP == 100

\* Variant of AssertFresh: alert only when no interrupt at all was pending
AssertFreshIfIdle(old, mask) == old = 0

\* assert: the test on what fetch_or returned
AssertFresh(old, mask) == BitAnd(old, mask) # mask

\* The first access of assert(mask) on the SharedContext of hart t
AssertBegin(t, mask) ==
    /\ running
    /\ \A a \in asserts : ~(a.target = t /\ a.mask = mask)
    /\ asserts' = asserts \cup
          {[target |-> t, mask |-> mask,
            fresh |-> AssertFresh(CONTEXTS[t].shared.sip, mask)]}
    /\ CONTEXTS' = [CONTEXTS EXCEPT ![t].shared.sip = BitOr(@, mask)]
    /\ UNCHANGED <<memory, events, cycle, host, running, ICACHE, CODE_CACHE, at, history>>

\* The rest of the call: alert when a bit was new, then return
AssertEnd(a) ==
    /\ running
    /\ a \in asserts
    /\ asserts' = asserts \ {a}
    /\ CONTEXTS' = [CONTEXTS EXCEPT ![a.target].shared =
                        IF a.fresh THEN alert(@) ELSE @]
    /\ UNCHANGED <<memory, events, cycle, host, running, ICACHE, CODE_CACHE, at, history>>

\* A device lowers its line
Deassert(t, mask) ==
    /\ running
    /\ BitAnd(CONTEXTS[t].shared.sip, mask) # 0
    /\ CONTEXTS' = [CONTEXTS EXCEPT ![t].shared = deassert(@, mask)]
    /\ UNCHANGED <<memory, events, cycle, host, running, ICACHE, CODE_CACHE, at, asserts,
                   history>>

\* check_interrupt, first access
CheckSwap(h) ==
    /\ running
    /\ at[h].phase = "find"
    /\ CONTEXTS' = [CONTEXTS EXCEPT ![h] = check_swap(@)]
    /\ at' = [at EXCEPT ![h].phase = "timer"]
    /\ UNCHANGED <<memory, events, cycle, host, running, ICACHE, CODE_CACHE, asserts, history>>

\* check_interrupt, the timer
CheckTimer(h) ==
    /\ running
    /\ at[h].phase = "timer"
    /\ CONTEXTS' = [CONTEXTS EXCEPT ![h] = check_timer(@, cycle)]
    /\ at' = [at EXCEPT ![h].phase = "pending"]
    /\ UNCHANGED <<memory, events, cycle, host, running, ICACHE, CODE_CACHE, asserts, history>>

\* The state after the evaluation of interrupt_pending and find_block
EnteredChecked(h, f) ==
    /\ CommitCached(IF f.found
                    THEN [f.w EXCEPT !.C[h].instret = @ + Len(f.w.C[h].cur_block.block)]
                    ELSE f.w)
    /\ at' = [at EXCEPT ![h] = IF f.found THEN [phase |-> "block", i |-> 0]
                                ELSE BetweenBlocks]
    /\ history' = [history EXCEPT !.seen[h] = CONTEXTS[h].shared.sip]
    /\ UNCHANGED <<cycle, host, asserts>>

EnterCheckedFrom(h, ops, limit, c) ==
    /\ c.instret + Len(ops) <= limit
    /\ Fetchable(ops, insn_translate(c, memory, c.pc))
    /\ EnteredChecked(h, find_block(SetCtx(CachedWorld, h, c), h, ops))

\* check_interrupt, the evaluation of interrupt_pending with its trap, and
\* then find_block
EnterChecked(h, ops, limit) ==
    /\ running
    /\ at[h].phase = "pending"
    /\ EnterCheckedFrom(h, ops, limit, check_pending(CONTEXTS[h]))

\* The clock
Tick ==
    /\ running
    /\ cycle < MaxCycle
    /\ cycle' = cycle + CLOCK_STEP
    /\ UNCHANGED <<host, CONTEXTS, memory, events, running, ICACHE, CODE_CACHE, at, asserts,
                   history>>

\* The events of a queue that are due at a cycle, and those that are not
DueEvents(ev, now) == { i \in DOMAIN ev : ev[i].cycle <= now }

RECURSIVE KeptEvents(_, _)
KeptEvents(ev, now) ==
    IF ev = <<>> THEN <<>>
    ELSE IF Head(ev).cycle <= now THEN KeptEvents(Tail(ev), now)
    ELSE <<Head(ev)>> \o KeptEvents(Tail(ev), now)

\* handle_events: every entry at or before the cycle is popped and its
\* handler run; the handler of a timer entry alerts the hart that queued it
handle_events(C, ev, now) ==
    [h \in DOMAIN C |->
        IF \E i \in DueEvents(ev, now) : ev[i].hart = h
        THEN [C[h] EXCEPT !.shared = alert(@)] ELSE C[h]]

EventLoop ==
    /\ running
    /\ DueEvents(events, cycle) # {}
    /\ CONTEXTS' = handle_events(CONTEXTS, events, cycle)
    /\ events' = KeptEvents(events, cycle)
    /\ UNCHANGED <<memory, cycle, host, running, ICACHE, CODE_CACHE, at, asserts, history>>

\* sie := STIP | SEIP, then sstatus.SIE := 1
Enable ==
    <<Op2(MkOp("Addi", 5, 0, 0, 544)), Op4(MkCsrOp("Csrrw", 0, 5, 0, "Sie")),
      Op4(MkCsrOp("Csrrsi", 0, 0, 2, "Sstatus")), JumpNext>>
Return == <<Op4(MkOp("Sret", 0, 0, 0, 0))>>
\* SBI call 0 with a0 = 1
SetTimer ==
    <<Op2(MkOp("Addi", 10, 0, 0, 1)), Op2(MkOp("Addi", 17, 0, 0, 0)),
      Op4(MkOp("Ecall", 0, 0, 0, 0))>>

IrqBlocks == { Enable, Return, SetTimer }

\* Masks other threads assert: the external interrupt
SourceMasks == {512}

InitIrq ==
    /\ CONTEXTS = [h \in {0} |-> NewContext(h, PAGE_SIZE)]
    /\ memory = <<>>
    /\ events = <<>>
    /\ cycle = 0
    /\ HostAtRest
    /\ running = TRUE
    /\ ThreadsAtRest({0})

NextIrq ==
    \/ \E h \in DOMAIN CONTEXTS : CheckSwap(h)
    \/ \E h \in DOMAIN CONTEXTS : CheckTimer(h)
    \/ \E h \in DOMAIN CONTEXTS : \E ops \in IrqBlocks : EnterChecked(h, ops, MaxIrqInstret)
    \/ \E h \in DOMAIN CONTEXTS : RunEntry(h, IrqBlocks)
    \/ \E t \in DOMAIN CONTEXTS : \E mask \in SourceMasks : AssertBegin(t, mask)
    \/ \E a \in asserts : AssertEnd(a)
    \/ \E t \in DOMAIN CONTEXTS : Deassert(t, 512)
    \/ Tick
    \/ EventLoop

SpecIrq == InitIrq /\ [][NextIrq]_vars

----------------------------------------------------------------------------
(* Specification SpecCache: two harts in supervisor mode, paging off,      *)
(* sharing the code cache and running the same guest code from the same    *)
(* entry: a jump from page 1 to page 3, there a store to page 2, then      *)
(* straight-line jumps.  A block is built under the CODE_CACHE lock by the *)
(* hart that misses, and a hart can be suspended between two ops of the    *)
(* block it holds.                                                         *)

\* Instructions a hart may retire in SpecCache
MaxCacheInstret == 10

Hop == <<JumpNext>>
\* A jump from page 1 to page 3
FarJump == <<Op4(MkOp("Jal", 0, 0, 0, 2 * PAGE_SIZE))>>
\* A store to the start of page 2
StorePage ==
    <<Op4(MkOp("Lui", 2, 0, 0, 2 * PAGE_SIZE)), Op4(MkOp("Sd", 0, 2, 0, 0)), JumpNext>>

CacheBlocks == { Hop, FarJump, StorePage }

\* The guest code: what decode_block reads at a physical pc
CodeAt(pc) ==
    IF pc = PAGE_SIZE THEN FarJump
    ELSE IF pc = 3 * PAGE_SIZE THEN StorePage
    ELSE Hop

InitCache ==
    /\ CONTEXTS = [h \in {0, 1} |-> NewContext(h, PAGE_SIZE)]
    /\ memory = <<>>
    /\ events = <<>>
    /\ cycle = 0
    /\ HostAtRest
    /\ running = TRUE
    /\ ICACHE = <<>>
    /\ CODE_CACHE = Heap_new
    /\ at = [h \in {0, 1} |-> BetweenBlocks]
    /\ asserts = {}
    /\ history = [log |-> <<>>, seen |-> [h \in {0, 1} |-> 0]]

NextCache ==
    \E h \in DOMAIN CONTEXTS :
        \/ \E ops \in CacheBlocks :
              ops = CodeAt(CONTEXTS[h].pc) /\ EnterCached(h, ops, MaxCacheInstret)
        \/ RunEntry(h, CacheBlocks)

SpecCache == InitCache /\ [][NextCache]_vars

----------------------------------------------------------------------------
(* Specification SpecFence: two hart threads with the page table of        *)
(* MmuImage.  Hart 0 turns paging on, rewrites the leaf PTE of page 2 and  *)
(* calls SBI 6 for all harts; hart 1, entered at its own address, turns    *)
(* paging on and loads from page 2.  A load that misses in the line array  *)
(* can be suspended inside translate_cache_miss, between the page walk     *)
(* and the write of the line entry.                                        *)

\* Instructions a hart may retire in SpecFence
MaxFenceInstret == 11

\* The leaf PTE of page 2 now maps physical page 1
RemapData ==
    <<Op4(MkOp("Lui", 5, 0, 0, 10 * PAGE_SIZE)),
      Op4(MkOp("Addi", 1, 0, 0, Pte(1, LeafFlags))),
      Op4(MkOp("Sd", 0, 5, 1, 16)), JumpNext>>
\* SBI call 6 with a null hart mask pointer: every hart
FenceAll ==
    <<Op2(MkOp("Addi", 10, 0, 0, 0)), Op2(MkOp("Addi", 17, 0, 0, 6)),
      Op4(MkOp("Ecall", 0, 0, 0, 0))>>

FenceBlocks == { PagingOn, RemapData, FenceAll, TouchData, Hop }

\* Where hart 1 enters the guest code
SecondaryEntry == PAGE_SIZE + 1024

\* The guest code: what decode_block reads at a pc
FenceCodeAt(pc) ==
    CASE pc \in {PAGE_SIZE, SecondaryEntry} -> PagingOn
      [] pc = PAGE_SIZE + 12 -> RemapData
      [] pc = PAGE_SIZE + 28 -> FenceAll
      [] pc \in {SecondaryEntry + 12, SecondaryEntry + 20} -> TouchData
      [] OTHER -> Hop

\* The entry the thread of hart h is at
EntryAt(h) == CONTEXTS[h].cur_block.block[at[h].i + 1]

\* translate_cache_miss for a load, up to the result of translate: the
\* thread holds the physical address and has not written the line entry
LoadTranslate(h) ==
    /\ running
    /\ at[h].phase = "block"
    /\ EntryAt(h).inst.op = "Ld"
    /\ ~AtLineStart(CONTEXTS[h].pc)
    /\ EffAddr(CONTEXTS[h], EntryAt(h).inst) % 8 = 0
    /\ ReadMiss(CountAccess(CONTEXTS[h]), memory, EffAddr(CONTEXTS[h], EntryAt(h).inst))
    /\ at' = [at EXCEPT ![h] =
                 [phase |-> "refill", i |-> at[h].i,
                  out |-> translate(CONTEXTS[h], memory,
                                    EffAddr(CONTEXTS[h], EntryAt(h).inst), FALSE).val]]
    /\ UNCHANGED <<CONTEXTS, memory, events, cycle, host, running, ICACHE, CODE_CACHE, asserts,
                   history>>

\* The rest of translate_cache_miss with the address out, and the load
Refilled(w, h, op, out) ==
    LoadDone(w, h, op, FALSE,
             DataFill(CountAccess(w.C[h]), EffAddr(w.C[h], op), FALSE, Ok(out)))

\* The thread writes the line entry from the address it holds and
\* completes the load
LoadFill(h) ==
    /\ running
    /\ at[h].phase = "refill"
    /\ EntryRan(h, EntryAt(h), Len(CONTEXTS[h].cur_block.block),
                EntryStepped(h, at[h].i, EntryAt(h), Len(CONTEXTS[h].cur_block.block),
                    Refilled(SetCtx(CachedWorld, h,
                                    [CONTEXTS[h] EXCEPT
                                        !.pc = wrapping_add(@, OpSize(EntryAt(h)))]),
                             h, EntryAt(h).inst, at[h].out)))

InitFence ==
    /\ CONTEXTS = [h \in {0, 1} |->
                      NewContext(h, IF h = 0 THEN PAGE_SIZE ELSE SecondaryEntry)]
    /\ memory = MmuImage
    /\ events = <<>>
    /\ cycle = 0
    /\ HostAtRest
    /\ running = TRUE
    /\ ThreadsAtRest({0, 1})

NextFence ==
    \/ \E h \in DOMAIN CONTEXTS : \E ops \in FenceBlocks :
          ops = FenceCodeAt(CONTEXTS[h].pc) /\ Enter(h, ops, MaxFenceInstret)
    \/ \E h \in DOMAIN CONTEXTS : RunEntry(h, FenceBlocks)
    \/ \E h \in DOMAIN CONTEXTS : LoadTranslate(h)
    \/ \E h \in DOMAIN CONTEXTS : LoadFill(h)

SpecFence == InitFence /\ [][NextFence]_vars

----------------------------------------------------------------------------
(* The event loop thread, the threads that queue events, and the driver    *)
(* that restarts the fibers after a change of mode.  The harts are reduced *)
(* to what they do to the event loop: they queue timer events while they   *)
(* run, and their fibers return once shutdown has told them to.            *)

\* Largest cycle the clock reaches, events the harts queue in a run, and
\* calls of shutdown in a run
MaxLoopCycle == 2
MaxQueued == 3
MaxShutdowns == 2

\* The handler of shutdown's event does nothing: it alerts no hart
NoHart == -1

\* BinaryHeap::peek of a heap that is not empty: Ord for Entry reverses the
\* comparison of time, the top is an entry of the smallest time
PeekTime(ev) ==
    CHOOSE t \in { ev[i].cycle : i \in DOMAIN ev } : \A i \in DOMAIN ev : t <= ev[i].cycle

RemoveAt(ev, i) == SubSeq(ev, 1, i - 1) \o SubSeq(ev, i + 1, Len(ev))

\* handle_events stops at a top entry with time > cycle
EventDueBefore(time, now) == time < now
EventDue(time, now) == time <= now

\* The entries pop may return: those of the smallest time (of entries that
\* are the same in time and handler, the first stands for all)
TopEntries(ev) ==
    { j \in DOMAIN ev :
        /\ ev[j].cycle = PeekTime(ev)
        /\ \A k \in 1 .. j - 1 : ev[k] # ev[j] }

\* handle_events: what the loop may do to the heap ev at a cycle.  Entries of
\* equal time compare equal, which of them pop returns first is left to the
\* heap: every order is an outcome.  ran is the sequence of entries whose
\* handler has run, left the heap afterwards, next the value returned.
RECURSIVE handle_events_runs(_, _, _)
handle_events_runs(ev, now, ran) ==
    IF ev = <<>> THEN { [ran |-> ran, left |-> ev, next |-> None] }
    ELSE IF ~EventDue(PeekTime(ev), now)
    THEN { [ran |-> ran, left |-> ev, next |-> Some(PeekTime(ev))] }
    ELSE UNION { handle_events_runs(RemoveAt(ev, i), now, Append(ran, ev[i])) :
                    i \in TopEntries(ev) }

\* The handlers of the entries ran, run on the contexts: a timer entry alerts
\* its hart
RanOn(C, ran) ==
    [h \in DOMAIN C |->
        IF \E i \in DOMAIN ran : ran[i].hart = h
        THEN [C[h] EXCEPT !.shared = alert(@)] ELSE C[h]]

\* The events mutex is free: the loop holds it from its start to its return
\* except while it waits
EventsUnlocked == at["event_loop"].phase \in {"wait", "returned"}

\* The second half of EventLoop::queue, after the push: in threaded mode a
\* notify_one when the top of the heap has the time just queued, which wakes
\* the loop if it waits; in lockstep mode next_event := time of the top
queue_silent(E, ev, time, threaded, waiting) == E
queue_wake(E, ev, time, threaded, waiting) ==
    IF threaded
    THEN IF PeekTime(ev) = time /\ waiting THEN [E EXCEPT !.notified = TRUE] ELSE E
    ELSE [E EXCEPT !.next_event = PeekTime(ev)]

\* BinaryHeap::push.  The heap is a bag, the order of its vector is not
\* observable: the sequence that stands for it is kept sorted by time.
RECURSIVE push(_, _)
push(ev, entry) ==
    IF ev = <<>> THEN <<entry>>
    ELSE IF entry.cycle < Head(ev).cycle THEN <<entry>> \o ev
    ELSE <<Head(ev)>> \o push(Tail(ev), entry)

\* EventLoop::queue
queue(entry) ==
    /\ EventsUnlocked
    /\ events' = push(events, entry)
    /\ EVENT_LOOP' = queue_wake(EVENT_LOOP, push(events, entry), entry.cycle,
                                FLAGS.thread, at["event_loop"].phase = "wait")

\* A hart queues a timer event (SBI call 0)
QueueTimer(h, time) ==
    /\ running
    /\ at["harts"].phase = "run"
    /\ history.queued < MaxQueued
    /\ queue([cycle |-> time, hart |-> h])
    /\ history' = [history EXCEPT !.queued = @ + 1]
    /\ UNCHANGED <<CONTEXTS, memory, cycle, running, ICACHE, CODE_CACHE, at, asserts,
                   FLAGS, EXIT_REASON, console, devices>>

\* crate::shutdown, called from the console thread or from a hart (SBI 8):
\* the store of the shutdown flag, ...
ShutdownBegin(reason) ==
    /\ running
    /\ at["caller"].phase = "idle"
    /\ at["harts"].phase = "run"
    /\ history.shutdowns < MaxShutdowns
    /\ EVENT_LOOP' = [EVENT_LOOP EXCEPT !.shutdown = TRUE]
    /\ at' = [at EXCEPT !["caller"] = [phase |-> "shutdown", reason |-> reason]]
    /\ history' = [history EXCEPT !.shutdowns = @ + 1, !.requested = TRUE]
    /\ UNCHANGED <<CONTEXTS, memory, events, cycle, running, ICACHE, CODE_CACHE, asserts,
                   FLAGS, EXIT_REASON, console, devices>>

\* ... then the no-op event queued at cycle 0, the exit reason, and the
\* shutdown of every hart
ShutdownEnd ==
    /\ running
    /\ at["caller"].phase = "shutdown"
    /\ queue([cycle |-> 0, hart |-> NoHart])
    /\ EXIT_REASON' = Some(at["caller"].reason)
    /\ at' = [at EXCEPT !["caller"] = [phase |-> "idle"],
                        !["harts"] = [phase |-> "stopping"]]
    /\ UNCHANGED <<CONTEXTS, memory, cycle, running, ICACHE, CODE_CACHE, asserts, history,
                   FLAGS, console, devices>>

\* The dispatcher of each hart sees the termination flag between two blocks
HartsReturn ==
    /\ running
    /\ at["harts"].phase = "stopping"
    /\ at' = [at EXCEPT !["harts"] = [phase |-> "returned"]]
    /\ UNCHANGED <<CONTEXTS, memory, events, cycle, running, ICACHE, CODE_CACHE, asserts,
                   history, host>>

\* event_loop, the top of its loop: the cycle is read, then the shutdown flag
EventLoopCheck ==
    /\ running
    /\ at["event_loop"].phase = "top"
    /\ at' = [at EXCEPT !["event_loop"] =
                 IF EVENT_LOOP.shutdown THEN [phase |-> "returned"]
                 ELSE [phase |-> "handle", cycle |-> cycle]]
    /\ UNCHANGED <<CONTEXTS, memory, events, cycle, running, ICACHE, CODE_CACHE, asserts,
                   history, host>>

\* EventLoop::cycle in threaded mode: 100 cycles to the microsecond
CYCLES_PER_MICRO == 100

\* Duration::from_micros(v - cycle): the number of cycles to the deadline,
\* taken as a number of microseconds
from_micros(cycles) == cycles * CYCLES_PER_MICRO

\* The cycle at which the wait of a loop that read cycle times out: never
\* for condvar.wait, after the duration for condvar.wait_timeout
wait_timeout(now, next) ==
    IF next.some THEN Some(now + from_micros(next.val - now)) ELSE None

\* event_loop, the rest of an iteration up to the wait: handle_events, then
\* in threaded mode condvar.wait, or wait_timeout to the time returned, and
\* in lockstep mode next_event := the time returned, the guard dropped and
\* event_loop_wait entered
EventLoopHandled(o) ==
    /\ events' = o.left
    /\ CONTEXTS' = RanOn(CONTEXTS, o.ran)
    /\ history' = [history EXCEPT !.ran = @ + Len(o.ran), !.last = o.ran]
    /\ at' = [at EXCEPT !["event_loop"] =
                 [phase |-> "wait", until |-> o.next,
                  expires |-> wait_timeout(at["event_loop"].cycle, o.next)]]
    /\ EVENT_LOOP' =
          IF FLAGS.thread THEN [EVENT_LOOP EXCEPT !.notified = FALSE]
          ELSE [EVENT_LOOP EXCEPT
                   !.next_event = IF o.next.some THEN o.next.val ELSE WordMax]

EventLoopHandle ==
    /\ running
    /\ at["event_loop"].phase = "handle"
    /\ \E o \in handle_events_runs(events, at["event_loop"].cycle, <<>>) :
          EventLoopHandled(o)
    /\ UNCHANGED <<memory, cycle, running, ICACHE, CODE_CACHE, asserts,
                   FLAGS, EXIT_REASON, console, devices>>

\* The wait is over: in threaded mode the condvar has been notified or the
\* timeout has passed, in lockstep mode event_loop_wait returns once the
\* cycle has reached next_event
WaitOverUntimed(E, expires, threaded, now) ==
    IF threaded THEN E.notified ELSE E.next_event <= now
WaitOver(E, expires, threaded, now) ==
    IF threaded THEN E.notified \/ (expires.some /\ expires.val <= now)
    ELSE E.next_event <= now

EventLoopWake ==
    /\ running
    /\ at["event_loop"].phase = "wait"
    /\ WaitOver(EVENT_LOOP, at["event_loop"].expires, FLAGS.thread, cycle)
    /\ at' = [at EXCEPT !["event_loop"] = [phase |-> "top"]]
    /\ EVENT_LOOP' = [EVENT_LOOP EXCEPT !.notified = FALSE]
    /\ UNCHANGED <<CONTEXTS, memory, events, cycle, running, ICACHE, CODE_CACHE, asserts,
                   history, FLAGS, EXIT_REASON, console, devices>>

\* main, once every fiber has returned: Exit ends the process; SetThreaded
\* sets the mode, the code cache is reset, every context alerted, and the
\* loop of main sets the functions of the fibers and runs them again
Restart ==
    /\ running
    /\ at["event_loop"].phase = "returned"
    /\ at["harts"].phase = "returned"
    /\ IF EXIT_REASON.val.kind = "Exit"
       THEN /\ running' = FALSE
            /\ UNCHANGED <<CONTEXTS, ICACHE, at, FLAGS, history, devices>>
       ELSE /\ FLAGS' = [FLAGS EXCEPT !.thread = EXIT_REASON.val.threaded]
            /\ ICACHE' = <<>>
            /\ CONTEXTS' = [h \in DOMAIN CONTEXTS |->
                               [CONTEXTS[h] EXCEPT !.shared = alert(@)]]
            /\ at' = [at EXCEPT !["event_loop"] = [phase |-> "top"],
                                !["harts"] = [phase |-> "run"]]
            /\ history' = [history EXCEPT !.restarts = @ + 1, !.requested = FALSE]
            /\ UNCHANGED running
    /\ UNCHANGED <<memory, events, cycle, CODE_CACHE, asserts,
                   EVENT_LOOP, EXIT_REASON, console, devices>>

\* A cycle by which every timed wait that starts no later than MaxLoopCycle
\* has timed out
LoopHorizon == from_micros(MaxLoopCycle)

\* The clock: the wall clock in threaded mode, the cycle counter in lockstep.
\* It is followed cycle by cycle up to MaxLoopCycle, and from there on in
\* one step to LoopHorizon.
Advance ==
    /\ running
    /\ cycle < LoopHorizon
    /\ cycle' = IF cycle < MaxLoopCycle THEN cycle + 1 ELSE LoopHorizon
    /\ UNCHANGED <<CONTEXTS, memory, events, running, ICACHE, CODE_CACHE, at, asserts,
                   history, host>>

InitLoop ==
    /\ CONTEXTS = [h \in {0} |-> NewContext(h, PAGE_SIZE)]
    /\ memory = <<>>
    /\ events = <<>>
    /\ cycle = 0
    /\ running = TRUE
    /\ ICACHE = <<>>
    /\ CODE_CACHE = [cursor |-> 0, bytes |-> <<>>]
    /\ at = [t \in {"event_loop", "harts", "caller"} |->
                IF t = "event_loop" THEN [phase |-> "top"]
                ELSE IF t = "harts" THEN [phase |-> "run"] ELSE [phase |-> "idle"]]
    /\ asserts = {}
    /\ history = [ran |-> 0, last |-> <<>>, queued |-> 0, shutdowns |-> 0, restarts |-> 0,
                  requested |-> FALSE]
    /\ EVENT_LOOP = EventLoop_new
    /\ FLAGS \in { [thread |-> t] : t \in BOOLEAN }
    /\ EXIT_REASON = None
    /\ console = Console_new(<<>>)
    /\ DevicesAtRest

EventLoopStep == EventLoopCheck \/ EventLoopHandle \/ EventLoopWake

NextLoop ==
    \/ \E time \in 0 .. MaxLoopCycle : QueueTimer(0, time)
    \/ ShutdownBegin(SetThreaded(~FLAGS.thread))
    \/ ShutdownBegin(Exit(0))
    \/ ShutdownEnd
    \/ HartsReturn
    \/ EventLoopCheck
    \/ EventLoopHandle
    \/ EventLoopWake
    \/ Restart
    \/ Advance

SpecLoop == InitLoop /\ [][NextLoop]_vars

\* The threads are scheduled: a step of the event loop that stays possible
\* is taken, and so are the second half of shutdown once the mutex is free
\* and the return of the harts
SpecLoopLive ==
    /\ SpecLoop
    /\ WF_vars(EventLoopStep)
    /\ WF_vars(ShutdownEnd)
    /\ WF_vars(HartsReturn)

\* ... and time passes: the wall clock runs, and in lockstep mode the harts
\* keep counting cycles
SpecLoopTimed == SpecLoopLive /\ WF_vars(Advance)

----------------------------------------------------------------------------
(* The console thread: it reads stdin byte by byte and sends on tx what    *)
(* the guest is to receive.  Bytes are their codes: 1 is Ctrl-A, 116 is t, *)
(* 120 is x, 99 is c.                                                      *)

\* Bytes typed in a run
MaxTyped == 3

\* What is typed: Ctrl-A, the three hotkeys, and a, a key of no meaning
TypedBytes == {1, 97, 99, 116, 120}

RECURSIVE SeqsUpTo(_, _)
SeqsUpTo(S, n) ==
    IF n = 0 THEN { <<>> }
    ELSE SeqsUpTo(S, n - 1) \cup
         { Append(s, b) : s \in { t \in SeqsUpTo(S, n - 1) : Len(t) = n - 1 }, b \in S }

\* crate::shutdown as one step: EventLoop::shutdown, then the exit reason
Shutdown(reason) ==
    /\ EVENT_LOOP' = queue_wake([EVENT_LOOP EXCEPT !.shutdown = TRUE],
                                push(events, [cycle |-> 0, hart |-> NoHart]), 0,
                                FLAGS.thread, FALSE)
    /\ events' = push(events, [cycle |-> 0, hart |-> NoHart])
    /\ EXIT_REASON' = Some(reason)

\* read_exact of one byte at the top of the loop: a byte other than Ctrl-A
\* is sent, Ctrl-A makes the thread read another
ConsoleRead ==
    /\ running
    /\ at["console"].phase = "read"
    /\ console.stdin # <<>>
    /\ console' = [console EXCEPT
                      !.stdin = Tail(@),
                      !.tx = IF Head(console.stdin) = 1 THEN @
                             ELSE Append(@, Head(console.stdin))]
    /\ at' = [at EXCEPT !["console"] =
                 IF Head(console.stdin) = 1 THEN [phase |-> "escape"]
                 ELSE [phase |-> "read"]]
    /\ history' = [history EXCEPT !.read = Append(@, Head(console.stdin))]
    /\ UNCHANGED <<CONTEXTS, memory, events, cycle, running, ICACHE, CODE_CACHE, asserts,
                   EVENT_LOOP, FLAGS, EXIT_REASON, devices>>

\* Where the match on the byte after Ctrl-A leaves the thread: t and the
\* bytes of no meaning continue the loop; x, c and Ctrl-A leave the match,
\* the statement after it is tx.send(buffer)
AfterEscape(byte) ==
    IF byte \in {120, 99, 1} THEN [phase |-> "send", buffer |-> byte]
    ELSE [phase |-> "read"]

\* The byte after Ctrl-A is read and matched
ConsoleEscape ==
    /\ running
    /\ at["console"].phase = "escape"
    /\ console.stdin # <<>>
    /\ console' = [console EXCEPT
                      !.stdin = Tail(@),
                      !.raised = IF Head(console.stdin) = 99 THEN @ + 1 ELSE @]
    /\ IF Head(console.stdin) = 116 THEN Shutdown(SetThreaded(~FLAGS.thread))
       ELSE IF Head(console.stdin) = 120 THEN Shutdown(Exit(0))
       ELSE UNCHANGED <<EVENT_LOOP, events, EXIT_REASON, devices>>
    /\ at' = [at EXCEPT !["console"] = AfterEscape(Head(console.stdin))]
    /\ history' = [history EXCEPT !.read = Append(@, Head(console.stdin))]
    /\ UNCHANGED <<CONTEXTS, memory, cycle, running, ICACHE, CODE_CACHE, asserts, FLAGS, devices>>

\* tx.send(buffer), the last statement of the loop
ConsoleSend ==
    /\ running
    /\ at["console"].phase = "send"
    /\ console' = [console EXCEPT !.tx = Append(@, at["console"].buffer)]
    /\ at' = [at EXCEPT !["console"] = [phase |-> "read"]]
    /\ UNCHANGED <<CONTEXTS, memory, events, cycle, running, ICACHE, CODE_CACHE, asserts,
                   history, EVENT_LOOP, FLAGS, EXIT_REASON, devices>>

\* SIGTRAP raised with no debugger attached ends the process; with one, the
\* thread goes on when the debugger continues it
Trapped ==
    /\ running
    /\ at["console"].phase = "send"
    /\ at["console"].buffer = 99
    /\ running' = FALSE
    /\ UNCHANGED <<CONTEXTS, memory, events, cycle, ICACHE, CODE_CACHE, at, asserts,
                   history, host>>

\* main, the fibers having returned: process::exit on Exit, and on
\* SetThreaded the mode is set and the fibers run again
MainExit ==
    /\ running
    /\ EXIT_REASON.some
    /\ EXIT_REASON.val.kind = "Exit"
    /\ running' = FALSE
    /\ UNCHANGED <<CONTEXTS, memory, events, cycle, ICACHE, CODE_CACHE, at, asserts,
                   history, host>>

MainSwitch ==
    /\ running
    /\ EXIT_REASON.some
    /\ EXIT_REASON.val.kind = "SetThreaded"
    /\ FLAGS.thread # EXIT_REASON.val.threaded
    /\ FLAGS' = [FLAGS EXCEPT !.thread = EXIT_REASON.val.threaded]
    /\ UNCHANGED <<CONTEXTS, memory, events, cycle, running, ICACHE, CODE_CACHE, at,
                   asserts, history, EVENT_LOOP, EXIT_REASON, console, devices>>

InitConsole ==
    /\ CONTEXTS = [h \in {0} |-> NewContext(h, PAGE_SIZE)]
    /\ memory = <<>>
    /\ events = <<>>
    /\ cycle = 0
    /\ running = TRUE
    /\ ICACHE = <<>>
    /\ CODE_CACHE = [cursor |-> 0, bytes |-> <<>>]
    /\ at = [t \in {"console"} |-> [phase |-> "read"]]
    /\ asserts = {}
    /\ history = [read |-> <<>>]
    /\ EVENT_LOOP = EventLoop_new
    /\ FLAGS \in { [thread |-> t] : t \in BOOLEAN }
    /\ EXIT_REASON = None
    /\ console \in { Console_new(typed) : typed \in SeqsUpTo(TypedBytes, MaxTyped) }
    /\ DevicesAtRest

NextConsole ==
    \/ ConsoleRead
    \/ ConsoleEscape
    \/ ConsoleSend
    \/ Trapped
    \/ MainExit
    \/ MainSwitch

SpecConsole == InitConsole /\ [][NextConsole]_vars

----------------------------------------------------------------------------
(* Specification SpecDecode: the blocks are decoded from guest memory.  The *)
(* code is laid out one halfword per memory cell, at the address of the     *)
(* halfword.  It turns paging on at the end of a page and runs into a       *)
(* 4-byte instruction whose first half is the last halfword of the page.    *)

\* Instructions a hart may retire before the model stops scheduling it
MaxDecodeInstret == 8

\* read_memory::<u16>
read_memory_u16(m, a) == read_memory(m, a) % 65536

\* The bits of an instruction from position lo on, width of them
Field(bits, lo, width) == (bits \div Pow2(lo)) % Pow2(width)

\* An immediate of width bits, sign-extended to a word
SignExtend(v, width) == IF v >= Pow2(width - 1) THEN Neg(Pow2(width) - v) ELSE v

\* riscv::decode::decode, for the encodings of the code below: OP-IMM addi
\* and SYSTEM csrrw on satp; anything else in this model is Illegal
decode(bits) ==
    IF bits % 128 = 19 /\ Field(bits, 12, 3) = 0
    THEN MkOp("Addi", Field(bits, 7, 5), Field(bits, 15, 5), 0,
              SignExtend(Field(bits, 20, 12), 12))
    ELSE IF bits % 128 = 115 /\ Field(bits, 12, 3) = 1 /\ Field(bits, 20, 12) = 384
    THEN MkCsrOp("Csrrw", Field(bits, 7, 5), Field(bits, 15, 5), 0, "Satp")
    ELSE MkOp("Illegal", 0, 0, 0, 0)

\* riscv::decode::decode_compressed: c.addi (c.nop), c.li and c.slli
decode_compressed(bits) ==
    LET rd == Field(bits, 7, 5)
        imm == Field(bits, 12, 1) * 32 + Field(bits, 2, 5)
    IN  IF bits % 4 = 1 /\ Field(bits, 13, 3) = 0
        THEN MkOp("Addi", rd, rd, 0, SignExtend(imm, 6))
        ELSE IF bits % 4 = 1 /\ Field(bits, 13, 3) = 2
        THEN MkOp("Addi", rd, 0, 0, SignExtend(imm, 6))
        ELSE IF bits % 4 = 2 /\ Field(bits, 13, 3) = 0
        THEN MkOp("Slli", rd, rd, 0, imm)
        ELSE MkOp("Illegal", 0, 0, 0, 0)

\* Where decode_instr reads the high half of a 4-byte instruction at pc
HighHalfAt(pc, pc_next) == IF pc % PAGE_SIZE = PAGE_SIZE - 2 THEN pc_next ELSE pc + 2

\* decode_instr: the entry at the physical pc and the pc after it
decode_instr(m, pc, pc_next) ==
    IF read_memory_u16(m, pc) % 4 = 3
    THEN [e |-> Entry(decode(read_memory_u16(m, HighHalfAt(pc, pc_next)) * 65536
                             + read_memory_u16(m, pc)), FALSE),
          pc |-> pc + 4]
    ELSE [e |-> Entry(decode_compressed(read_memory_u16(m, pc)), TRUE), pc |-> pc + 2]

\* decode_block: entries up to the first that can change the control flow or
\* that ends past the page of start_pc
RECURSIVE decode_from(_, _, _, _)
decode_from(m, start_pc, pc, pc_next) ==
    LET d == decode_instr(m, pc, pc_next)
    IN  IF can_change_control_flow(d.e.inst) \/ ~SamePage(d.pc, start_pc)
        THEN <<d.e>>
        ELSE <<d.e>> \o decode_from(m, start_pc, d.pc, pc_next)

decode_block(m, pc, pc_next) == decode_from(m, pc, pc, pc_next)

\* find_block, the physical address of the page after that of pc: 0 when
\* its translation fails
PhysPcNext(c, m, pc) ==
    LET t == translate(c, m, (pc - (pc % PAGE_SIZE)) + PAGE_SIZE, FALSE)
    IN  IF t.ok THEN t.val ELSE 0

\* What find_block decodes for the hart at its pc
DecodedAt(c, m) ==
    LET t == insn_translate(c, m, c.pc)
    IN  IF t.ok THEN decode_block(m, t.val, PhysPcNext(t.ctx, m, c.pc)) ELSE <<>>

\* The hart h runs the block decoded at its pc
DispatchDecoded(h, limit) ==
    /\ running
    /\ CONTEXTS[h].instret + Len(DecodedAt(CONTEXTS[h], memory)) <= limit
    /\ Commit(run_block(CurWorld, h, DecodedAt(CONTEXTS[h], memory), cycle).w)
    /\ UNCHANGED <<cycle, host, ICACHE, CODE_CACHE, at, asserts, history>>

\* Encodings: addi rd, rs1, imm; csrrw x0, satp, rs1; c.li rd, imm;
\* c.slli rd, shamt; c.addi rd, imm, of which c.nop is the case rd = 0
EncodeAddi(rd, rs1, imm) == imm * Pow2(20) + rs1 * Pow2(15) + rd * 128 + 19
EncodeCsrwSatp(rs1) == 384 * Pow2(20) + rs1 * Pow2(15) + Pow2(12) + 115
EncodeCLi(rd, imm) == 2 * Pow2(13) + rd * 128 + imm * 4 + 1
EncodeCSlli(rd, shamt) == (shamt \div 32) * Pow2(12) + rd * 128 + (shamt % 32) * 4 + 2
EncodeCAddi(rd, imm) == rd * 128 + imm * 4 + 1
EncodeCNop == EncodeCAddi(0, 0)

\* The two halfwords of a 4-byte instruction placed at address a
Halves(a, bits) == (a :> bits % 65536) @@ (a + 2 :> bits \div 65536)

\* The straddling instruction starts at the last halfword of page 2
StraddleAt == 2 * PAGE_SIZE + PAGE_SIZE - 2
DecodeEntry == StraddleAt - 14

\* The code: satp := mode 8, root page 8; c.nop; then the low half of
\* addi rd, x0, imm
StraddleCode(rd, imm) ==
    (DecodeEntry :> EncodeCLi(3, 8)) @@
    (DecodeEntry + 2 :> EncodeCSlli(3, SATP_MODE_SHIFT)) @@
    Halves(DecodeEntry + 4, EncodeAddi(3, 3, 8)) @@
    Halves(DecodeEntry + 8, EncodeCsrwSatp(3)) @@
    (DecodeEntry + 12 :> EncodeCNop) @@
    (StraddleAt :> EncodeAddi(rd, 0, imm) % 65536)

\* The page table: virtual page 2 is physical page 2
StraddleTable ==
    (8 * PAGE_SIZE :> Pte(9, 1)) @@
    (9 * PAGE_SIZE :> Pte(10, 1)) @@
    (10 * PAGE_SIZE + 16 :> Pte(2, LeafFlags))

\* Virtual page 3 is physical page 3, which begins with the high half of
\* the straddling instruction
NextPageMapped(imm) ==
    (10 * PAGE_SIZE + 24 :> Pte(3, LeafFlags)) @@
    (3 * PAGE_SIZE :> EncodeAddi(0, 0, imm) \div 65536)

\* Guest images: the destination and immediate of the instruction, what
\* the halfword at physical address 0 holds, and whether the page after the
\* code is mapped
StraddleImagesOf(rd, imm) ==
    { StraddleCode(rd, imm) @@ StraddleTable @@ low @@ next :
        low \in { <<>>, (0 :> EncodeAddi(0, 0, 3) \div 65536), (0 :> EncodeCNop) },
        next \in { <<>>, NextPageMapped(imm) } }

StraddleImages == UNION { StraddleImagesOf(rd, imm) : rd \in {5, 6, 7}, imm \in {1, 2} }

InitDecode ==
    /\ CONTEXTS = [h \in {0} |-> NewContext(h, DecodeEntry)]
    /\ memory \in StraddleImages
    /\ events = <<>>
    /\ cycle = 0
    /\ HostAtRest
    /\ running = TRUE
    /\ ThreadsAtRest({0})

NextDecode == \E h \in DOMAIN CONTEXTS : DispatchDecoded(h, MaxDecodeInstret)

SpecDecode == InitDecode /\ [][NextDecode]_vars

----------------------------------------------------------------------------
(* Specification SpecHandler: the event loop with handlers that call back  *)
(* into the EventLoop.  An entry tells what its handler does: the alert of *)
(* a hart, nothing, a call of EventLoop::queue, or a call of shutdown.     *)

\* The handler of the entry calls queue / shutdown of the loop that runs it
Requeue == -2
Stopper == -3

Calls(entry) == entry.hart \in {Requeue, Stopper}

\* Mutex::lock by the thread that holds the mutex: std leaves open whether
\* it blocks for ever or panics, it does not return
Relock == {"deadlock", "panic"}

\* handle_events with such handlers: as handle_events_runs, up to the first
\* handler that calls back, which does not return (stuck)
RECURSIVE handle_events_calls(_, _, _)
handle_events_calls(ev, now, ran) ==
    IF ev = <<>> THEN { [ran |-> ran, left |-> ev, next |-> None, stuck |-> FALSE] }
    ELSE IF ~EventDue(PeekTime(ev), now)
    THEN { [ran |-> ran, left |-> ev, next |-> Some(PeekTime(ev)), stuck |-> FALSE] }
    ELSE UNION { IF Calls(ev[i])
                 THEN { [ran |-> Append(ran, ev[i]), left |-> RemoveAt(ev, i),
                         next |-> None, stuck |-> TRUE] }
                 ELSE handle_events_calls(RemoveAt(ev, i), now, Append(ran, ev[i])) :
                    i \in TopEntries(ev) }

\* The handler that called back: shutdown has stored the flag before its
\* call of queue; the lock of queue is where the thread of the loop stays
EventLoopStuck(o, outcome) ==
    /\ events' = o.left
    /\ CONTEXTS' = RanOn(CONTEXTS, o.ran)
    /\ history' = [history EXCEPT !.ran = @ + Len(o.ran) - 1, !.last = o.ran]
    /\ at' = [at EXCEPT !["event_loop"] = [phase |-> outcome]]
    /\ EVENT_LOOP' = [EVENT_LOOP EXCEPT
                         !.shutdown = @ \/ o.ran[Len(o.ran)].hart = Stopper]

\* event_loop from handle_events to the wait, the guard held all along
EventLoopHandleCalls ==
    /\ running
    /\ at["event_loop"].phase = "handle"
    /\ \E o \in handle_events_calls(events, at["event_loop"].cycle, <<>>) :
          IF o.stuck THEN \E outcome \in Relock : EventLoopStuck(o, outcome)
          ELSE EventLoopHandled(o)
    /\ UNCHANGED <<memory, cycle, running, ICACHE, CODE_CACHE, asserts,
                   FLAGS, EXIT_REASON, console, devices>>

\* A hart queues an event with a handler of the given kind
QueueHandler(kind, time) ==
    /\ running
    /\ history.queued < MaxQueued
    /\ queue([cycle |-> time, hart |-> kind])
    /\ history' = [history EXCEPT !.queued = @ + 1]
    /\ UNCHANGED <<CONTEXTS, memory, cycle, running, ICACHE, CODE_CACHE, at, asserts,
                   FLAGS, EXIT_REASON, console, devices>>

NextHandler ==
    \/ \E time \in 0 .. MaxLoopCycle : \E kind \in {0, NoHart, Requeue, Stopper} :
          QueueHandler(kind, time)
    \/ EventLoopCheck
    \/ EventLoopHandleCalls
    \/ EventLoopWake
    \/ Advance

SpecHandler == InitLoop /\ [][NextHandler]_vars

----------------------------------------------------------------------------
(* Specification SpecShare: two hart threads, paging off, run the same     *)
(* code with the code cache: a store to page 2 from page 1, a jump to page *)
(* 2, and straight-line jumps there.                                       *)

\* A store to the start of page 2, then the jump from page 1 to it
StoreThenEnter ==
    <<Op4(MkOp("Lui", 2, 0, 0, 2 * PAGE_SIZE)), Op4(MkOp("Sd", 0, 2, 0, 0)),
      Op4(MkOp("Jal", 0, 0, 0, PAGE_SIZE - 8))>>

ShareBlocks == { Hop, StoreThenEnter }

ShareCodeAt(pc) == IF pc = PAGE_SIZE THEN StoreThenEnter ELSE Hop

NextShare ==
    \E h \in DOMAIN CONTEXTS :
        \/ \E ops \in ShareBlocks :
              ops = ShareCodeAt(CONTEXTS[h].pc) /\ EnterCached(h, ops, MaxCacheInstret)
        \/ RunEntry(h, ShareBlocks)

SpecShare == InitCache /\ [][NextShare]_vars

----------------------------------------------------------------------------
(* Specification SpecLocks: the two hart threads of SpecCache, with        *)
(* find_block taken one lock at a time.  ICACHE (the map) and CODE_CACHE   *)
(* (the arena) are spin locks: a thread that wants one that is held spins. *)

\* Instructions a hart may retire in SpecLocks
MaxLockInstret == 5

\* Variant: the guard is a temporary of the scrutinee, alive through the match
LookupGuardThroughMatch(phase) == phase \in {"lookup", "miss", "alloc", "insert"}
\* The phases of find_block in which the guard of its lookup is alive: the
\* lookup is a block of its own inside the match scrutinee, its guard is
\* dropped at the end of that block
LookupGuardHeld(phase) == phase = "lookup"

\* The sizes of the four allocations of a build
PartSize(ops, i) ==
    IF i = 0 THEN Len(ops) ELSE IF i = 1 THEN CodeCells(ops)
    ELSE IF i = 2 THEN MapCells(ops) ELSE 1

\* The entry the thread is at is a store that misses: translate_cache_miss
\* locks the map for the removal of the blocks around the page
NeedsMap(h, e) ==
    /\ TakesWritePtr(CONTEXTS[h], e.inst)
    /\ WriteMiss([CONTEXTS[h] EXCEPT !.pc = wrapping_add(@, OpSize(e))], memory,
                 StoreAddr(CONTEXTS[h], e.inst))

\* The locks a thread holds, and the lock it is about to take
Holds(h) ==
    (IF LookupGuardHeld(at[h].phase) THEN {"ICACHE"} ELSE {})
        \cup (IF at[h].phase \in {"alloc", "insert"} THEN {"CODE_CACHE"} ELSE {})

Wants(h) ==
    CASE at[h].phase = "find" -> {"ICACHE"}
      [] at[h].phase = "miss" -> {"CODE_CACHE"}
      [] at[h].phase = "alloc" ->
            IF Rollover(CODE_CACHE.cursor,
                        PartSize(CodeAt(CONTEXTS[h].pc), at[h].i))
            THEN {"ICACHE"} ELSE {}
      [] at[h].phase = "insert" -> {"ICACHE"}
      [] at[h].phase = "block" ->
            IF \E e \in HeldEntries(CODE_CACHE, CONTEXTS[h].cur_block, at[h].i,
                                    CacheBlocks) : NeedsMap(h, e)
            THEN {"ICACHE"} ELSE {}
      [] OTHER -> {}

Free(lock) == \A g \in DOMAIN CONTEXTS : lock \notin Holds(g)

\* find_block up to icache(): the fetch, then the lock of the map
FindLock(h, c, t) ==
    /\ c.instret + Len(CodeAt(c.pc)) <= MaxLockInstret
    /\ IF ~t.ok
       THEN Entered(h, [w |-> SetCtx(CachedWorld, h, trap(t.ctx)), found |-> FALSE])
       ELSE /\ Free("ICACHE")
            /\ CONTEXTS' = [CONTEXTS EXCEPT ![h] = t.ctx]
            /\ at' = [at EXCEPT ![h] = [phase |-> "lookup", i |-> 0, key |-> t.val,
                                        cells |-> {}]]
            /\ UNCHANGED <<memory, events, cycle, running, ICACHE, CODE_CACHE, asserts,
                           history, host>>

Find(h) ==
    /\ running
    /\ at[h].phase = "find"
    /\ FindLock(h, check_interrupt(CONTEXTS[h], cycle),
                insn_translate(check_interrupt(CONTEXTS[h], cycle), memory,
                               check_interrupt(CONTEXTS[h], cycle).pc))

\* icache.get(&phys_pc), and the guard dropped
Lookup(h) ==
    /\ running
    /\ at[h].phase = "lookup"
    /\ IF at[h].key \in DOMAIN ICACHE
       THEN Entered(h, [w |-> SetCtx(CachedWorld, h,
                                     [CONTEXTS[h] EXCEPT !.cur_block = ICACHE[at[h].key]]),
                        found |-> TRUE])
       ELSE /\ at' = [at EXCEPT ![h].phase = "miss"]
            /\ UNCHANGED <<CONTEXTS, memory, events, cycle, running, ICACHE, CODE_CACHE,
                           asserts, history, host>>

\* CODE_CACHE.lock()
LockArena(h) ==
    /\ running
    /\ at[h].phase = "miss"
    /\ Free("CODE_CACHE")
    /\ at' = [at EXCEPT ![h].phase = "alloc"]
    /\ UNCHANGED <<CONTEXTS, memory, events, cycle, running, ICACHE, CODE_CACHE,
                   asserts, history, host>>

\* One of the four allocations and its copy; alloc_size locks the map for
\* icache().clear() when it rolls over
AllocParted(h, cc) ==
    /\ CODE_CACHE' = cc.heap
    /\ ICACHE' = cc.ic
    /\ at' = [at EXCEPT ![h] = [phase |-> IF at[h].i = 3 THEN "insert" ELSE "alloc",
                                i |-> at[h].i + 1, key |-> at[h].key,
                                cells |-> cc.cells]]

AllocPart(h) ==
    /\ running
    /\ at[h].phase = "alloc"
    /\ Rollover(CODE_CACHE.cursor, PartSize(CodeAt(CONTEXTS[h].pc), at[h].i))
          => Free("ICACHE")
    /\ AllocParted(h, Allocated([heap |-> CODE_CACHE, ic |-> ICACHE, cells |-> at[h].cells],
                                PartSize(CodeAt(CONTEXTS[h].pc), at[h].i),
                                BlockBody(CodeAt(CONTEXTS[h].pc), at[h].key)))
    /\ UNCHANGED <<CONTEXTS, memory, events, cycle, running, asserts, history, host>>

\* icache().insert(phys_pc, block), then the guard of the arena dropped
InsertBuilt(h, blk) ==
    Entered(h, [w |-> [SetCtx(CachedWorld, h, [CONTEXTS[h] EXCEPT !.cur_block = blk])
                          EXCEPT !.ic = Inserted(ICACHE, at[h].key, blk)],
                found |-> TRUE])

Insert(h) ==
    /\ running
    /\ at[h].phase = "insert"
    /\ Free("ICACHE")
    /\ InsertBuilt(h, Placed(BlockBody(CodeAt(CONTEXTS[h].pc), at[h].key), at[h].cells))

\* Inside a block: a store that misses takes the map lock when it is free
RunEntryLocked(h) ==
    /\ running
    /\ at[h].phase = "block"
    /\ \E e \in HeldEntries(CODE_CACHE, CONTEXTS[h].cur_block, at[h].i, CacheBlocks) :
          /\ NeedsMap(h, e) => Free("ICACHE")
          /\ EntryRan(h, e, Len(CONTEXTS[h].cur_block.block),
                      interp_entry(CachedWorld, h, at[h].i, cycle, e,
                                   Len(CONTEXTS[h].cur_block.block)))

NextLocks ==
    \E h \in DOMAIN CONTEXTS :
        \/ Find(h)
        \/ Lookup(h)
        \/ LockArena(h)
        \/ AllocPart(h)
        \/ Insert(h)
        \/ RunEntryLocked(h)

SpecLocks == InitCache /\ [][NextLocks]_vars

----------------------------------------------------------------------------
(* Specification SpecMmio: the guest reads and writes the registers of a   *)
(* virtio device with one queue (the block device) through Mmio.           *)

ADDR_MAGIC_VALUE == 0
ADDR_VERSION == 4
ADDR_DEVICE_ID == 8
ADDR_VENDOR_ID == 12
ADDR_DEVICE_FEATURES == 16
ADDR_DEVICE_FEATURES_SEL == 20
ADDR_DRIVER_FEATURES == 32
ADDR_DRIVER_FEATURES_SEL == 36
ADDR_QUEUE_SEL == 48
ADDR_QUEUE_NUM_MAX == 52
ADDR_QUEUE_NUM == 56
ADDR_QUEUE_READY == 68
ADDR_QUEUE_NOTIFY == 80
ADDR_INTERRUPT_STATUS == 96
ADDR_INTERRUPT_ACK == 100
ADDR_STATUS == 112
ADDR_QUEUE_DESC_LOW == 128
ADDR_QUEUE_DESC_HIGH == 132
ADDR_QUEUE_AVAIL_LOW == 144
ADDR_QUEUE_AVAIL_HIGH == 148
ADDR_QUEUE_USED_LOW == 160
ADDR_QUEUE_USED_HIGH == 164
ADDR_CONFIG_GENERATION == 252
ADDR_CONFIG == 256

\* Register accesses the guest makes in SpecMmio
MaxMmioAccesses == 2

\* The values the guest writes
MmioValues == {0, 1, 2, 8}

\* A 64-bit address as its two halves (SplitInt)
Split(lo, hi) == [lo |-> lo, hi |-> hi]

\* Queue::new, Queue::reset
Queue_new ==
    [num_max |-> 8, num |-> 8, ready |-> FALSE,
     desc_addr |-> Split(0, 0), avail_addr |-> Split(0, 0), used_addr |-> Split(0, 0)]

\* Mmio::new on a Block: the fields of Mmio, the status and the queues of
\* the device
Mmio_new ==
    [device_features_sel |-> FALSE, driver_features_sel |-> FALSE, queue_sel |-> 0,
     status |-> 0, queues |-> <<Queue_new>>]

\* Device::num_queues; the queue of index i is queues[i + 1]
num_queues(m) == Len(m.queues)

\* The offsets of the two outer match arms that lead to with_queue
QueueArmRead(addr) ==
    \/ addr \in {ADDR_QUEUE_NUM, ADDR_QUEUE_READY}
    \/ addr \in ADDR_QUEUE_DESC_LOW .. ADDR_QUEUE_USED_HIGH
QueueArmWrite(addr) ==
    \/ addr \in ADDR_QUEUE_NUM .. ADDR_QUEUE_READY
    \/ addr \in ADDR_QUEUE_DESC_LOW .. ADDR_QUEUE_USED_HIGH

\* The offsets the inner match of both closures has an arm for
QueueRegisters ==
    {ADDR_QUEUE_NUM, ADDR_QUEUE_READY, ADDR_QUEUE_DESC_LOW, ADDR_QUEUE_DESC_HIGH,
     ADDR_QUEUE_AVAIL_LOW, ADDR_QUEUE_AVAIL_HIGH, ADDR_QUEUE_USED_LOW, ADDR_QUEUE_USED_HIGH}

Returned(v) == [ret |-> v, unreachable |-> FALSE]

\* The closure of Mmio::read on the selected queue
QueueRead(vq, addr) ==
    CASE addr = ADDR_QUEUE_NUM -> vq.num
      [] addr = ADDR_QUEUE_READY -> IF vq.ready THEN 1 ELSE 0
      [] addr = ADDR_QUEUE_DESC_LOW -> vq.desc_addr.lo
      [] addr = ADDR_QUEUE_DESC_HIGH -> vq.desc_addr.hi
      [] addr = ADDR_QUEUE_AVAIL_LOW -> vq.avail_addr.lo
      [] addr = ADDR_QUEUE_AVAIL_HIGH -> vq.avail_addr.hi
      [] addr = ADDR_QUEUE_USED_LOW -> vq.used_addr.lo
      [] addr = ADDR_QUEUE_USED_HIGH -> vq.used_addr.hi

\* Mmio::read below ADDR_CONFIG: the set of [ret, unreachable] it can end
\* with.  unreachable_unchecked is undefined behaviour: any value may come
\* back.
Mmio_read(m, addr, size) ==
    IF size # 4 THEN { Returned(0) }
    ELSE IF addr = ADDR_MAGIC_VALUE THEN { Returned(1953655158) }
    ELSE IF addr = ADDR_VERSION THEN { Returned(2) }
    ELSE IF addr = ADDR_DEVICE_ID THEN { Returned(2) }
    ELSE IF addr = ADDR_VENDOR_ID THEN { Returned(65535) }
    ELSE IF addr = ADDR_DEVICE_FEATURES
        THEN { Returned(IF m.device_features_sel THEN 1 ELSE 0) }
    ELSE IF addr = ADDR_DEVICE_FEATURES_SEL
        THEN { Returned(IF m.device_features_sel THEN 1 ELSE 0) }
    ELSE IF addr = ADDR_DRIVER_FEATURES_SEL
        THEN { Returned(IF m.driver_features_sel THEN 1 ELSE 0) }
    ELSE IF addr = ADDR_QUEUE_SEL THEN { Returned(m.queue_sel) }
    ELSE IF addr = ADDR_QUEUE_NUM_MAX
        THEN { Returned(IF m.queue_sel >= num_queues(m) THEN 0
                        ELSE m.queues[m.queue_sel + 1].num_max) }
    ELSE IF QueueArmRead(addr)
        THEN IF m.queue_sel >= num_queues(m) THEN { Returned(0) }
             ELSE IF addr \in QueueRegisters
                 THEN { Returned(QueueRead(m.queues[m.queue_sel + 1], addr)) }
             ELSE { [ret |-> v, unreachable |-> TRUE] : v \in MmioValues }
    ELSE IF addr = ADDR_INTERRUPT_STATUS THEN { Returned(0) }
    ELSE IF addr = ADDR_STATUS THEN { Returned(m.status) }
    ELSE { Returned(0) }

\* u32::is_power_of_two
is_power_of_two(v) == v # 0 /\ BitAnd(v, v - 1) = 0

\* The closure of Mmio::write on the selected queue
QueueWrite(vq, addr, value) ==
    CASE addr = ADDR_QUEUE_NUM ->
            IF is_power_of_two(value) /\ value <= vq.num_max
            THEN [vq EXCEPT !.num = value] ELSE vq
      [] addr = ADDR_QUEUE_READY -> [vq EXCEPT !.ready = (value % 2 # 0)]
      [] addr = ADDR_QUEUE_DESC_LOW -> [vq EXCEPT !.desc_addr.lo = value]
      [] addr = ADDR_QUEUE_DESC_HIGH -> [vq EXCEPT !.desc_addr.hi = value]
      [] addr = ADDR_QUEUE_AVAIL_LOW -> [vq EXCEPT !.avail_addr.lo = value]
      [] addr = ADDR_QUEUE_AVAIL_HIGH -> [vq EXCEPT !.avail_addr.hi = value]
      [] addr = ADDR_QUEUE_USED_LOW -> [vq EXCEPT !.used_addr.lo = value]
      [] addr = ADDR_QUEUE_USED_HIGH -> [vq EXCEPT !.used_addr.hi = value]

Written(m) == [mmio |-> m, unreachable |-> FALSE]

\* What the undefined behaviour of the inner match can leave of the queue:
\* the queue as it was, or the value in one of its registers
Clobbered(vq, value) ==
    {vq} \cup { QueueWrite(vq, r, value) : r \in QueueRegisters }

\* Mmio::write below ADDR_CONFIG: the set of [mmio, unreachable] it can end
\* with
Mmio_write(m, addr, value, size) ==
    IF size # 4 THEN { Written(m) }
    ELSE IF addr = ADDR_DEVICE_FEATURES_SEL
        THEN { Written(IF value \in {0, 1}
                       THEN [m EXCEPT !.device_features_sel = (value = 1)] ELSE m) }
    ELSE IF addr = ADDR_DRIVER_FEATURES THEN { Written(m) }
    ELSE IF addr = ADDR_DRIVER_FEATURES_SEL
        THEN { Written(IF value \in {0, 1}
                       THEN [m EXCEPT !.driver_features_sel = (value = 1)] ELSE m) }
    ELSE IF addr = ADDR_QUEUE_SEL THEN { Written([m EXCEPT !.queue_sel = value]) }
    ELSE IF addr = ADDR_QUEUE_NOTIFY THEN { Written(m) }
    ELSE IF QueueArmWrite(addr)
        THEN IF m.queue_sel >= num_queues(m) THEN { Written(m) }
             ELSE IF addr \in QueueRegisters
                 THEN { Written([m EXCEPT !.queues[m.queue_sel + 1] =
                                              QueueWrite(@, addr, value)]) }
             ELSE { [mmio |-> [m EXCEPT !.queues[m.queue_sel + 1] = q],
                     unreachable |-> TRUE] :
                        q \in Clobbered(m.queues[m.queue_sel + 1], value) }
    ELSE IF addr = ADDR_INTERRUPT_ACK THEN { Written(m) }
    ELSE IF addr = ADDR_STATUS
        THEN { Written(IF value = 0 THEN Mmio_new ELSE [m EXCEPT !.status = value]) }
    ELSE { Written(m) }

\* The offsets below ADDR_CONFIG
Offsets == 0 .. ADDR_CONFIG - 1

\* The guest stores value at the offset addr of the device
MmioWrite(addr, value) ==
    /\ running
    /\ history.accesses < MaxMmioAccesses
    /\ \E o \in Mmio_write(MMIO, addr, value, 4) :
          /\ MMIO' = o.mmio
          /\ history' = [accesses |-> history.accesses + 1, ret |-> 0,
                         unreachable |-> history.unreachable \/ o.unreachable]
    /\ UNCHANGED <<CONTEXTS, memory, events, cycle, running, ICACHE, CODE_CACHE, at,
                   asserts, EVENT_LOOP, FLAGS, EXIT_REASON, console, WAIT_LIST_MAP>>

\* The guest loads from the offset addr of the device
MmioRead(addr) ==
    /\ running
    /\ history.accesses < MaxMmioAccesses
    /\ \E o \in Mmio_read(MMIO, addr, 4) :
          history' = [accesses |-> history.accesses + 1, ret |-> o.ret,
                      unreachable |-> history.unreachable \/ o.unreachable]
    /\ UNCHANGED <<CONTEXTS, memory, events, cycle, running, ICACHE, CODE_CACHE, at,
                   asserts, EVENT_LOOP, FLAGS, EXIT_REASON, console, WAIT_LIST_MAP, MMIO>>

InitMmio ==
    /\ CONTEXTS = [h \in {0} |-> NewContext(h, PAGE_SIZE)]
    /\ memory = <<>>
    /\ events = <<>>
    /\ cycle = 0
    /\ running = TRUE
    /\ ICACHE = <<>>
    /\ CODE_CACHE = [cursor |-> 0, bytes |-> <<>>]
    /\ at = <<>>
    /\ asserts = {}
    /\ history = [accesses |-> 0, ret |-> 0, unreachable |-> FALSE]
    /\ EVENT_LOOP = EventLoop_new
    /\ FLAGS = [thread |-> FALSE]
    /\ EXIT_REASON = None
    /\ console = Console_new(<<>>)
    /\ WAIT_LIST_MAP = <<>>
    /\ MMIO = Mmio_new

NextMmio ==
    \/ \E addr \in Offsets : \E value \in MmioValues : MmioWrite(addr, value)
    \/ \E addr \in Offsets : MmioRead(addr)

SpecMmio == InitMmio /\ [][NextMmio]_vars

----------------------------------------------------------------------------
(* Specification SpecPark: fibers, each on a thread of its own, park on    *)
(* one key while another thread calls unpark_one and unpark_all.  The      *)
(* WaitEntry of a parked fiber is a local of park, on the fiber's stack;   *)
(* a pointer to it is the fiber's index, 0 is None.                        *)

\* Fibers that park, and unpark calls the other thread makes
MaxFibers == 2
MaxUnparks == 2

Fibers == 1 .. MaxFibers
\* The thread that unparks
Unparker == 0

\* FiberGroup::prepare_pause, unpause and pause belong to the fiber crate:
\* an unpause that comes between prepare_pause and pause is remembered, and
\* pause then returns true without pausing
prepare_pause(state) == "prepared"
unpause(state) ==
    IF state = "paused" THEN "run" ELSE IF state = "prepared" THEN "awaken" ELSE state
pause(state) ==
    IF state = "awaken" THEN [state |-> "run", awaken |-> TRUE]
    ELSE [state |-> "paused", awaken |-> FALSE]

\* A fiber that has not called park
Unparked ==
    [phase |-> "start", state |-> "run", valid |-> FALSE, slept |-> FALSE,
     awaken |-> FALSE, frame |-> FALSE, next |-> 0]

\* The fibers on the list from entry ptr on, as the next fields chain them
RECURSIVE Chain(_, _, _)
Chain(threads, ptr, fuel) ==
    IF ptr = 0 \/ fuel = 0 THEN <<>>
    ELSE <<ptr>> \o Chain(threads, threads[ptr].next, fuel - 1)

Listed == IF WAIT_LIST_MAP = <<>> THEN <<>> ELSE Chain(at, WAIT_LIST_MAP.head, MaxFibers)

\* park, the closure run under the lock of the list: validate, then the
\* entry linked at the tail and prepare_pause
ParkEnqueue(f, valid) ==
    /\ running
    /\ at[f].phase = "start"
    /\ IF ~valid
       THEN /\ at' = [at EXCEPT ![f].phase = "returned"]
            /\ UNCHANGED <<WAIT_LIST_MAP, history>>
       ELSE /\ WAIT_LIST_MAP' =
                  IF WAIT_LIST_MAP = <<>> THEN [head |-> f, tail |-> f]
                  ELSE [WAIT_LIST_MAP EXCEPT !.tail = f]
            /\ at' = [g \in DOMAIN at |->
                        IF g = f
                        THEN [at[f] EXCEPT !.phase = "before_sleep", !.valid = TRUE,
                                           !.frame = TRUE, !.next = 0,
                                           !.state = prepare_pause(@)]
                        ELSE IF WAIT_LIST_MAP # <<>> /\ g = WAIT_LIST_MAP.tail
                        THEN [at[g] EXCEPT !.next = f]
                        ELSE at[g]]
            /\ history' = [history EXCEPT !.enqueued = Append(@, f)]
    /\ UNCHANGED <<CONTEXTS, memory, events, cycle, running, ICACHE, CODE_CACHE, asserts,
                   EVENT_LOOP, FLAGS, EXIT_REASON, console, MMIO>>

\* park after the lock: before_sleep, then pause; park returns at once when
\* the fiber has been unpaused already, and its frame is gone
Paused(f, p) ==
    at' = [at EXCEPT ![f] = [@ EXCEPT !.slept = TRUE, !.state = p.state,
                                     !.awaken = p.awaken,
                                     !.phase = IF p.awaken THEN "returned" ELSE "sleeping",
                                     !.frame = ~p.awaken]]

ParkPause(f) ==
    /\ running
    /\ at[f].phase = "before_sleep"
    /\ Paused(f, pause(at[f].state))
    /\ UNCHANGED <<CONTEXTS, memory, events, cycle, running, ICACHE, CODE_CACHE, asserts,
                   history, host>>

\* fiber_sleep returns once the fiber is unpaused: park returns
ParkResume(f) ==
    /\ running
    /\ at[f].phase = "sleeping"
    /\ at[f].state = "run"
    /\ at' = [at EXCEPT ![f] = [@ EXCEPT !.phase = "returned", !.frame = FALSE]]
    /\ UNCHANGED <<CONTEXTS, memory, events, cycle, running, ICACHE, CODE_CACHE, asserts,
                   history, host>>

\* unpark_all, list.take() under the lock
UnparkAllTake ==
    /\ running
    /\ at[Unparker].phase = "idle"
    /\ history.unparks < MaxUnparks
    /\ WAIT_LIST_MAP' = <<>>
    /\ at' = [at EXCEPT ![Unparker] =
                 IF WAIT_LIST_MAP = <<>> THEN [phase |-> "idle"]
                 ELSE [phase |-> "walk", ptr |-> WAIT_LIST_MAP.head]]
    /\ history' = [history EXCEPT !.unparks = @ + 1,
                                  !.selected = @ \cup { Listed[i] : i \in DOMAIN Listed }]
    /\ UNCHANGED <<CONTEXTS, memory, events, cycle, running, ICACHE, CODE_CACHE, asserts,
                   EVENT_LOOP, FLAGS, EXIT_REASON, console, MMIO>>

\* unpark_all, the loop: FiberGroup::unpause(entry.fiber) ...
UnparkAllUnpause ==
    /\ running
    /\ at[Unparker].phase = "walk"
    /\ at' = [at EXCEPT ![at[Unparker].ptr].state = unpause(@),
                        ![Unparker] = [phase |-> "next", cur |-> at[Unparker].ptr]]
    /\ history' = [history EXCEPT !.woken[at[Unparker].ptr] = @ + 1]
    /\ UNCHANGED <<CONTEXTS, memory, events, cycle, running, ICACHE, CODE_CACHE, asserts,
                   host>>

\* What a read of the next field of an entry returns: the field while the
\* frame of the entry is alive; once park has returned the read is of a dead
\* frame, and returns what was there or what has been written over it
ReadNext(thread) == IF thread.frame THEN {thread.next} ELSE {thread.next, 0}

\* ... then ptr = entry.next
UnparkAllNext ==
    /\ running
    /\ at[Unparker].phase = "next"
    /\ \E ptr \in ReadNext(at[at[Unparker].cur]) :
          at' = [at EXCEPT ![Unparker] =
                    IF ptr = 0 THEN [phase |-> "idle"] ELSE [phase |-> "walk", ptr |-> ptr]]
    /\ UNCHANGED <<CONTEXTS, memory, events, cycle, running, ICACHE, CODE_CACHE, asserts,
                   history, host>>

\* unpark_one, the closure under the lock: the head is unlinked
UnparkOneTake ==
    /\ running
    /\ at[Unparker].phase = "idle"
    /\ history.unparks < MaxUnparks
    /\ IF WAIT_LIST_MAP = <<>>
       THEN UNCHANGED <<WAIT_LIST_MAP, at>> /\ history' = [history EXCEPT !.unparks = @ + 1]
       ELSE /\ WAIT_LIST_MAP' =
                  IF at[WAIT_LIST_MAP.head].next = 0 THEN <<>>
                  ELSE [WAIT_LIST_MAP EXCEPT !.head = at[WAIT_LIST_MAP.head].next]
            /\ at' = [at EXCEPT ![Unparker] = [phase |-> "one", ptr |-> WAIT_LIST_MAP.head]]
            /\ history' = [history EXCEPT !.unparks = @ + 1,
                                          !.selected = @ \cup {WAIT_LIST_MAP.head}]
    /\ UNCHANGED <<CONTEXTS, memory, events, cycle, running, ICACHE, CODE_CACHE, asserts,
                   EVENT_LOOP, FLAGS, EXIT_REASON, console, MMIO>>

\* unpark_one after the lock: FiberGroup::unpause(fiber)
UnparkOneUnpause ==
    /\ running
    /\ at[Unparker].phase = "one"
    /\ at' = [at EXCEPT ![at[Unparker].ptr].state = unpause(@),
                        ![Unparker] = [phase |-> "idle"]]
    /\ history' = [history EXCEPT !.woken[at[Unparker].ptr] = @ + 1]
    /\ UNCHANGED <<CONTEXTS, memory, events, cycle, running, ICACHE, CODE_CACHE, asserts,
                   host>>

InitPark ==
    /\ CONTEXTS = [h \in {0} |-> NewContext(h, PAGE_SIZE)]
    /\ memory = <<>>
    /\ events = <<>>
    /\ cycle = 0
    /\ running = TRUE
    /\ ICACHE = <<>>
    /\ CODE_CACHE = [cursor |-> 0, bytes |-> <<>>]
    /\ at = [t \in Fibers \cup {Unparker} |->
                IF t = Unparker THEN [phase |-> "idle"] ELSE Unparked]
    /\ asserts = {}
    /\ history = [unparks |-> 0, selected |-> {}, enqueued |-> <<>>,
                  woken |-> [f \in Fibers |-> 0]]
    /\ HostAtRest

NextPark ==
    \/ \E f \in Fibers : \E valid \in BOOLEAN : ParkEnqueue(f, valid)
    \/ \E f \in Fibers : ParkPause(f)
    \/ \E f \in Fibers : ParkResume(f)
    \/ UnparkAllTake
    \/ UnparkAllUnpause
    \/ UnparkAllNext
    \/ UnparkOneTake
    \/ UnparkOneUnpause

SpecPark == InitPark /\ [][NextPark]_vars

----------------------------------------------------------------------------
(* Properties.  A property of a function (step, trap, run_block) is stated *)
(* over every reachable state: the function is applied to the state and    *)
(* the result compared with the state it was applied to.                   *)

OpsOf(blocks) == UNION { { b[i].inst : i \in DOMAIN b } : b \in blocks }

Bit(v, mask) == BitAnd(v, mask) # 0

NoOperands(name) == MkOp(name, 0, 0, 0, 0)

AllEmpty(c) ==
    \A i \in 0 .. L0_LINES - 1 : c.line[i].tag = EmptyTag /\ c.i_line[i].tag = EmptyTag

\* The block ops is one the decoder can return at the pc of hart h
FetchableAt(h, ops) ==
    Fetchable(ops, insn_translate(CONTEXTS[h], memory, CONTEXTS[h].pc))

\* C1: on every hart, whatever blocks have run (ops with rd = 0 among
\* them: addi, ld, amoadd.d, fmv.x.w, csrrw, jal, jalr, and an SBI return),
\* registers[0] is 0.
ZeroRegister == \A h \in DOMAIN CONTEXTS : CONTEXTS[h].registers[0] = 0

\* An addi with rd = 0 and a non-zero result has retired
ZeroRegisterWitness ==
    \E h \in DOMAIN CONTEXTS :
        /\ CONTEXTS[h].cur_block.block = ZeroThenBranch
        /\ CONTEXTS[h].instret >= 2
        /\ read_reg(CONTEXTS[h], 1) + 1 # 0
        /\ CONTEXTS[h].registers[0] = 0

\* C2: the pc of every hart is even in every reachable state.
PcEven == \A h \in DOMAIN CONTEXTS : CONTEXTS[h].pc % 2 = 0

\* C3: a page present in both i_line and line of a hart has the
\* non-writable bit set in its line entry.
FetchedPageNotWritable ==
    \A h \in DOMAIN CONTEXTS : \A i \in 0 .. L0_LINES - 1 :
        (/\ CONTEXTS[h].i_line[i].tag # EmptyTag
         /\ Shr(CONTEXTS[h].line[i].tag, 1) = CONTEXTS[h].i_line[i].tag)
        => CONTEXTS[h].line[i].tag % 2 = 1

\* The guest has written into its code page and fetched from it again
FetchedPageNotWritableWitness ==
    \E h \in DOMAIN CONTEXTS :
        /\ CONTEXTS[h].i_line[LineIndex(1)].tag = 1
        /\ CONTEXTS[h].line[LineIndex(1)].tag = 3
        /\ \E a \in DOMAIN memory : a \div PAGE_SIZE = 1 /\ memory[a] = a - 64

ProbeOffsets == {0, 8, PAGE_SIZE - 8}

\* The entry e of page pn gives, for the addresses of the page, what the
\* translator gives under satp and the page tables of m
EntryAgrees(c, m, e, pn, write) ==
    \A off \in ProbeOffsets :
        translate(c, m, pn * PAGE_SIZE + off, write)
            = Ok(BitXor(e.paddr, pn * PAGE_SIZE + off))

LineAgrees(c, m, i) ==
    c.line[i].tag # EmptyTag
        => EntryAgrees(c, m, c.line[i], Shr(c.line[i].tag, 1), c.line[i].tag % 2 = 0)

ILineAgrees(c, m, i) ==
    c.i_line[i].tag # EmptyTag => EntryAgrees(c, m, c.i_line[i], c.i_line[i].tag, FALSE)

CachesAgree(c, m) ==
    \A i \in 0 .. L0_LINES - 1 : LineAgrees(c, m, i) /\ ILineAgrees(c, m, i)

\* The translation of page pn is the same under (c, m) and (d, n)
SameTranslation(c, m, d, n, pn) ==
    \A off \in ProbeOffsets : \A write \in BOOLEAN :
        translate(c, m, pn * PAGE_SIZE + off, write)
            = translate(d, n, pn * PAGE_SIZE + off, write)

\* From agreeing caches (c, m), the caches of (d, n) agree on every page
\* whose translation is the same in both
AgreementKept(c, m, d, n) ==
    CachesAgree(c, m) =>
        \A i \in 0 .. L0_LINES - 1 :
            /\ (d.line[i].tag # EmptyTag /\ SameTranslation(c, m, d, n, Shr(d.line[i].tag, 1)))
                    => LineAgrees(d, n, i)
            /\ (d.i_line[i].tag # EmptyTag /\ SameTranslation(c, m, d, n, d.i_line[i].tag))
                    => ILineAgrees(d, n, i)

StepKeepsAgreement(h, r) == AgreementKept(CONTEXTS[h], memory, r.w.C[h], r.w.m)

FetchKeepsAgreement(h, r) == AgreementKept(CONTEXTS[h], memory, r.ctx, memory)

SatpWrites ==
    { MkCsrOp("Csrrw", rd, rs, 0, "Satp") : rd \in {0, 4}, rs \in {0, 1, 3} }
    \cup { MkCsrOp("Csrrwi", 0, 0, imm, "Satp") : imm \in {0, 9} }
    \cup { MkCsrOp("Csrrs", 0, 3, 0, "Satp"), MkCsrOp("Csrrci", 4, 0, 8, "Satp") }

EmptyAfter(h, r) == r.ok => AllEmpty(r.w.C[h])

EmptyAfterToUser(h, r) == (r.ok /\ r.w.C[h].prv = 0) => AllEmpty(r.w.C[h])

\* C5: after a CSR write to satp (whatever the value), a trap taken in
\* U-mode, an sret that returns to U-mode and an sfence.vma, every entry of
\* line and i_line of the hart has the empty tag.
FlushPoints ==
    \A h \in DOMAIN CONTEXTS :
        /\ \A op \in SatpWrites : EmptyAfter(h, step(CurWorld, h, op, cycle))
        /\ EmptyAfter(h, step(CurWorld, h, NoOperands("SfenceVma"), cycle))
        /\ EmptyAfterToUser(h, step(CurWorld, h, NoOperands("Sret"), cycle))
        /\ CONTEXTS[h].prv = 0 => AllEmpty(trap(CONTEXTS[h]))

\* With paging on, the guest has written an unsupported mode to satp: satp
\* is as it was and both caches are empty
FlushPointsWitness ==
    \E h \in DOMAIN CONTEXTS :
        /\ CONTEXTS[h].cur_block.block = BadMode
        /\ read_reg(CONTEXTS[h], 3) = Pow2(SATP_MODE_SHIFT)
        /\ SatpMode(CONTEXTS[h].satp) = 8
        /\ CONTEXTS[h].prv = 1
        /\ CONTEXTS[h].pc # CONTEXTS[h].stvec
        /\ AllEmpty(CONTEXTS[h])

Spp(c) == IF Bit(c.sstatus, 256) THEN 1 ELSE 0

TrapPost(c, t) ==
    /\ t.sepc = c.pc
    /\ Spp(t) = c.prv
    /\ Bit(t.sstatus, 32) = Bit(c.sstatus, 2)
    /\ ~Bit(t.sstatus, 2)
    /\ t.prv = 1
    /\ t.pc = c.stvec
    /\ t.scause = c.scause
    /\ t.stval = c.stval
    /\ t.registers = c.registers
    /\ t.fp_registers = c.fp_registers
    /\ t.instret = c.instret

TrapCauses == {2, 8, 13}

\* C6: trap, from any state with (scause, stval) written: sepc is the pc on
\* entry, SPP the privilege on entry, SPIE the SIE on entry, SIE is 0, prv
\* is S, pc is stvec; scause, stval, the registers and instret are kept.
TrapEffects ==
    \A h \in DOMAIN CONTEXTS : \A cause \in TrapCauses :
        TrapPost(Fault(CONTEXTS[h], cause, CONTEXTS[h].pc),
                 trap(Fault(CONTEXTS[h], cause, CONTEXTS[h].pc)))

\* An ecall in U-mode has trapped
TrapEffectsWitness ==
    \E h \in DOMAIN CONTEXTS :
        /\ CONTEXTS[h].cur_block.block = EnvCall
        /\ CONTEXTS[h].scause = 8
        /\ CONTEXTS[h].prv = 1
        /\ ~Bit(CONTEXTS[h].sstatus, 256)
        /\ CONTEXTS[h].pc = CONTEXTS[h].stvec
        /\ read_reg(CONTEXTS[h], 17) = 2

SretPost(c, ok, d) ==
    IF c.prv = 1
    THEN /\ ok
         /\ Bit(d.sstatus, 32)
         /\ ~Bit(d.sstatus, 256)
         /\ d.prv = Spp(c)
         /\ Bit(d.sstatus, 2) = Bit(c.sstatus, 32)
         /\ d.pc = c.sepc
    ELSE /\ ~ok
         /\ d.scause = 2
         /\ d.sstatus = c.sstatus
         /\ d.prv = c.prv
         /\ d.pc = c.pc
         /\ d.sepc = c.sepc

SretStep(h, r) == SretPost(CONTEXTS[h], r.ok, r.w.C[h])

\* C7: an sret in S-mode succeeds with SPIE = 1, SPP = 0, prv the SPP
\* before it, SIE the SPIE before it and pc = sepc; an sret in U-mode fails
\* with scause = 2 and changes none of them.
SretEffects ==
    \A h \in DOMAIN CONTEXTS : SretStep(h, step(CurWorld, h, NoOperands("Sret"), cycle))

\* An sret with SPP = 1 and SPIE = 1 has returned to S-mode
SretEffectsWitness ==
    \E h \in DOMAIN CONTEXTS :
        /\ CONTEXTS[h].cur_block.block = SetSppSpie
        /\ CONTEXTS[h].prv = 1
        /\ Bit(CONTEXTS[h].sstatus, 2)
        /\ Bit(CONTEXTS[h].sstatus, 32)
        /\ ~Bit(CONTEXTS[h].sstatus, 256)
        /\ CONTEXTS[h].pc = CONTEXTS[h].sepc

FpProbeOps ==
    { MkFpOp("Fld", 1, 2, 0, 0, 0), MkFpOp("Fsd", 0, 2, 1, 0, 0),
      MkFpOp("FsgnjD", 1, 1, 2, 0, 0), MkFpOp("FmvXD", 3, 1, 0, 0, 0),
      MkFpOp("FmvDX", 1, 3, 0, 0, 0), MkFpOp("FmvWX", 1, 3, 0, 0, 0),
      MkFpOp("FcvtLD", 3, 1, 0, 7, 1), MkFpOp("FcvtLD", 3, 1, 0, 5, 1),
      MkFpOp("FcvtDL", 1, 3, 0, 6, 1) }

StepProbeOps ==
    OpsOf(HartBlocks) \cup OpsOf(MmuBlocks) \cup FpProbeOps
    \cup { MkOp("LrD", 3, 2, 0, 0), MkOp("ScD", 3, 2, 1, 0), MkOp("AmoswapD", 3, 1, 2, 0),
           MkOp("Sd", 0, 1, 2, 0), MkOp("Ld", 3, 1, 0, 4), NoOperands("Wfi"),
           MkCsrOp("Csrrs", 3, 0, 0, "Fflags"), MkCsrOp("Csrrw", 3, 1, 0, "Time"),
           MkCsrOp("Csrrw", 3, 1, 0, "Mscratch") }

\* The (scause, stval) an op can fail with
FaultsOf(c, op) ==
    CASE op.op = "Ld" -> {<<4, EffAddr(c, op)>>, <<13, EffAddr(c, op)>>}
      [] op.op = "Fld" -> {<<2, 0>>, <<4, EffAddr(c, op)>>, <<13, EffAddr(c, op)>>}
      [] op.op = "Sd" -> {<<5, EffAddr(c, op)>>, <<15, EffAddr(c, op)>>}
      [] op.op = "Fsd" -> {<<2, 0>>, <<5, EffAddr(c, op)>>, <<15, EffAddr(c, op)>>}
      [] op.op \in {"LrD", "ScD", "AmoswapD", "AmoaddD"} ->
            {<<5, read_reg(c, op.rs1)>>, <<15, read_reg(c, op.rs1)>>}
      [] op.op = "Ebreak" -> {<<3, 0>>}
      [] op.op = "Ecall" -> {<<8, 0>>}
      [] OTHER -> {<<2, 0>>}

\* The context c with scause and stval overwritten, at a privilege, with
\* the FP unit on or off, under a satp
Poisoned(c, prv, fs_off, satp) ==
    [Fault(c, WordMax, WordMax) EXCEPT
        !.prv = prv,
        !.sstatus = IF fs_off THEN BitAndNot(@, 24576) ELSE @,
        !.satp = satp]

\* c in S-mode, in U-mode, with the FP unit off, and with paging on over
\* page tables the guest has not written (every miss is a page fault)
ContextVariants(c) ==
    { Poisoned(c, 1, FALSE, c.satp), Poisoned(c, 0, FALSE, c.satp),
      Poisoned(c, 1, TRUE, c.satp), Poisoned(c, 1, FALSE, 8 * Pow2(SATP_MODE_SHIFT) + 8) }

FailedStepPost(h, c, op, r) ==
    ~r.ok => /\ r.w.C[h].pc = c.pc
             /\ r.w.C[h].registers = c.registers
             /\ r.w.C[h].fp_registers = c.fp_registers
             /\ <<r.w.C[h].scause, r.w.C[h].stval>> \in FaultsOf(c, op)

FailedStep(h, c, op) ==
    FailedStepPost(h, c, op, step(SetCtx(CurWorld, h, c), h, op, cycle))

\* C8: when step fails, for any op, privilege, FP state and translation, it
\* has written the (scause, stval) of the cause, and pc, the integer
\* registers and the FP registers are as they were on entry.
FailedStepLeaves ==
    \A h \in DOMAIN CONTEXTS : \A op \in StepProbeOps :
        \A c \in ContextVariants(CONTEXTS[h]) : FailedStep(h, c, op)

\* A misaligned load has failed: scause and stval name it, and its
\* destination register holds what it held at reset
FailedStepLeavesWitness ==
    \E h \in DOMAIN CONTEXTS :
        /\ CONTEXTS[h].cur_block.block = FaultAfterMixed
        /\ CONTEXTS[h].scause = 4
        /\ CONTEXTS[h].stval = read_reg(CONTEXTS[h], 2)
        /\ read_reg(CONTEXTS[h], 2) = 2 * PAGE_SIZE + 4
        /\ read_reg(CONTEXTS[h], 3) = RegPoison

FaultAt(h, ops, r) ==
    r.fail >= 0 =>
        /\ r.w.C[h].sepc = wrapping_add(CONTEXTS[h].pc, PrefixSize(ops, r.fail))
        /\ r.w.C[h].prv = 1

\* C9: when op i of a block fails, the trap is delivered with sepc the
\* address of op i, the pc at entry of the block plus the sizes of the ops
\* before it, and prv is S.
TrapAtFailedOp ==
    \A h \in DOMAIN CONTEXTS : \A ops \in HartBlocks :
        FetchableAt(h, ops) => FaultAt(h, ops, run_block(CurWorld, h, ops, cycle))

\* The third op of a block, a 2-byte load behind a 2-byte and a 4-byte op,
\* has failed
TrapAtFailedOpWitness ==
    \E h \in DOMAIN CONTEXTS :
        /\ CONTEXTS[h].cur_block.block = FaultAfterMixed
        /\ CONTEXTS[h].scause = 4
        /\ CONTEXTS[h].stval = 2 * PAGE_SIZE + 4
        /\ CONTEXTS[h].sepc = CONTEXTS[h].cur_block.pc_start + 6
        /\ CONTEXTS[h].prv = 1

Accounted(h, ops, f, r) ==
    /\ r.w.C[h].instret >= CONTEXTS[h].instret
    /\ ~f.found => r.w.C[h].instret = CONTEXTS[h].instret
    /\ (f.found /\ r.w.run) =>
          r.w.C[h].instret
            = CONTEXTS[h].instret + (IF r.fail < 0 THEN Len(ops) ELSE r.fail)

\* C10: a block execution never decreases instret, and increases it by the
\* number of ops that completed: the length of the block when none fails,
\* i when op i (0-based) fails.
InstretCountsRetired ==
    \A h \in DOMAIN CONTEXTS : \A ops \in HartBlocks :
        FetchableAt(h, ops) =>
            Accounted(h, ops, find_block(CurWorld, h, ops),
                      run_block(CurWorld, h, ops, cycle))

\* From reset, a store and an FP move have retired and the third op, a
\* write to the instret CSR, has failed
InstretCountsRetiredWitness ==
    \E h \in DOMAIN CONTEXTS :
        /\ CONTEXTS[h].cur_block.block = StoreMoveCount
        /\ CONTEXTS[h].scause = 2
        /\ CONTEXTS[h].instret = 2
        /\ read_memory(memory, 16) = RegPoison

\* The store events of the log at an address: a store, an AMO, a
\* store-conditional that succeeded
StoresTo(ev, addr) ==
    /\ ev.addr = addr
    /\ ev.kind = "st" \/ (ev.kind = "sc" /\ ev.won)

\* Before event i of the log its hart load-reserved the address of the
\* event, with no store to the address since
ReservedAt(log, i) ==
    \E j \in 1 .. i - 1 :
        /\ log[j].kind = "lr"
        /\ log[j].hart = log[i].hart
        /\ log[j].addr = log[i].addr
        /\ \A k \in j + 1 .. i - 1 : ~StoresTo(log[k], log[i].addr)

\* C11: a store-conditional succeeds exactly when its hart load-reserved
\* the same address before it and no hart has stored to the doubleword in
\* between; one that fails has no such load-reserved or a store in between.
ScFollowsReservation ==
    \A i \in DOMAIN history.log :
        history.log[i].kind = "sc" =>
            (history.log[i].won <=> ReservedAt(history.log, i))

\* Events i .. i+3 of the log are lr, lr, sc, sc on one doubleword, the
\* two harts each doing one lr and one sc
PairedLrSc(log, i) ==
    /\ i + 3 <= Len(log)
    /\ log[i].kind = "lr" /\ log[i + 1].kind = "lr"
    /\ log[i + 2].kind = "sc" /\ log[i + 3].kind = "sc"
    /\ log[i].hart # log[i + 1].hart
    /\ log[i + 2].hart # log[i + 3].hart
    /\ \A k \in i + 1 .. i + 3 : log[k].addr = log[i].addr

\* C12: when two harts have both load-reserved a doubleword before either
\* store-conditional, at most one store-conditional succeeds.
AtMostOneScSucceeds ==
    \A i \in DOMAIN history.log :
        PairedLrSc(history.log, i) =>
            ~(history.log[i + 2].won /\ history.log[i + 3].won)

\* Bit b of the word v
BitAt(v, b) == (v \div Pow2(b)) % 2

\* A bit of mask is clear in v
SomeBitClear(v, mask) == \E b \in 0 .. XLEN - 1 : BitAt(mask, b) = 1 /\ BitAt(v, b) = 0

\* The masks of the supervisor interrupts, alone and together
IrqMasks == {32, 512, 544}

AssertEffect(sh, mask, post) ==
    /\ \A b \in 0 .. XLEN - 1 :
          BitAt(post.sip, b) = IF BitAt(mask, b) = 1 THEN 1 ELSE BitAt(sh.sip, b)
    /\ IF SomeBitClear(sh.sip, mask) THEN post.new_interrupts # 0
       ELSE post.new_interrupts = sh.new_interrupts

DeassertEffect(sh, mask, post) ==
    /\ \A b \in 0 .. XLEN - 1 :
          BitAt(post.sip, b) = IF BitAt(mask, b) = 1 THEN 0 ELSE BitAt(sh.sip, b)
    /\ post.new_interrupts = sh.new_interrupts

AlertEffect(sh, post) == post.new_interrupts # 0 /\ post.sip = sh.sip

\* C13: assert(mask) sets the bits of mask in sip, and makes new_interrupts
\* non-zero when a bit of mask was clear before and leaves it unchanged
\* otherwise; deassert(mask) clears the bits in sip and leaves
\* new_interrupts unchanged; alert makes new_interrupts non-zero and leaves
\* sip unchanged.
SharedContextEffects ==
    \A h \in DOMAIN CONTEXTS : \A mask \in IrqMasks :
        /\ AssertEffect(CONTEXTS[h].shared, mask, assert(CONTEXTS[h].shared, mask))
        /\ DeassertEffect(CONTEXTS[h].shared, mask, deassert(CONTEXTS[h].shared, mask))
        /\ AlertEffect(CONTEXTS[h].shared, alert(CONTEXTS[h].shared))

\* The external interrupt is pending, no call of assert is in progress and
\* the hart has reset new_interrupts since: the next assert of the same
\* mask finds no bit clear
SharedContextEffectsWitness ==
    \E h \in DOMAIN CONTEXTS :
        /\ BitAnd(CONTEXTS[h].shared.sip, 512) # 0
        /\ CONTEXTS[h].shared.new_interrupts = 0
        /\ asserts = {}
        /\ at[h].phase = "block"

\* Interrupt b is pending in sip and enabled in sie
PendingEnabled(sip, sie, b) == BitAt(sip, b) = 1 /\ BitAt(sie, b) = 1

\* The hart has trapped from c with the cause of interrupt b
InterruptTaken(c, post, b) ==
    /\ post.scause = Pow2(XLEN - 1) + b
    /\ post.stval = 0
    /\ post.sepc = c.pc
    /\ post.pc = c.stvec
    /\ post.prv = 1
    /\ BitAt(post.sstatus, 1) = 0

NoInterruptTaken(c, post) ==
    /\ post.pc = c.pc /\ post.prv = c.prv /\ post.sstatus = c.sstatus
    /\ post.sepc = c.sepc /\ post.scause = c.scause /\ post.stval = c.stval

CheckInterruptEffect(c, now, post) ==
    /\ post.shared.new_interrupts = 0
    /\ \A b \in 0 .. XLEN - 1 :
          BitAt(post.shared.sip, b) =
              IF b = 5 /\ now >= c.timecmp THEN 1 ELSE BitAt(c.shared.sip, b)
    /\ IF /\ BitAt(c.sstatus, 1) = 1
          /\ \E b \in 0 .. XLEN - 1 : PendingEnabled(post.shared.sip, c.sie, b)
       THEN \E b \in 0 .. XLEN - 1 :
               /\ PendingEnabled(post.shared.sip, c.sie, b)
               /\ \A hi \in b + 1 .. XLEN - 1 : ~PendingEnabled(post.shared.sip, c.sie, hi)
               /\ InterruptTaken(c, post, b)
       ELSE NoInterruptTaken(c, post)

\* C14: check_interrupt resets new_interrupts and sets bit 5 of sip when the
\* cycle has reached timecmp; with sstatus.SIE set and sip & sie non-zero it
\* traps with scause = 2^(XLEN-1) | b for the highest such bit b and
\* stval = 0; otherwise it takes no trap and pc, prv, sstatus, sepc, scause
\* and stval are unchanged.
CheckInterruptTakesHighest ==
    \A h \in DOMAIN CONTEXTS :
        CheckInterruptEffect(CONTEXTS[h], cycle, check_interrupt(CONTEXTS[h], cycle))

\* The hart has taken the external interrupt while the timer interrupt was
\* pending and enabled too
CheckInterruptTakesHighestWitness ==
    \E h \in DOMAIN CONTEXTS :
        /\ CONTEXTS[h].scause = Pow2(XLEN - 1) + 9
        /\ BitAnd(CONTEXTS[h].shared.sip, 544) = 544
        /\ CONTEXTS[h].sie = 544
        /\ BitAnd(CONTEXTS[h].sstatus, 34) = 32
        /\ at[h].phase = "block"

\* A call of assert on hart h has set bit b and has not returned yet
AssertInProgress(h, b) ==
    \E a \in asserts : a.target = h /\ a.fresh /\ BitAt(a.mask, b) = 1

\* check_interrupt of hart h is between its swap and its evaluation
CheckInProgress(h) == at[h].phase \in {"timer", "pending"}

\* Every bit of sip that a returned call left is covered: the wake flag is
\* set, or the latest evaluation of the hart came after the bit was set
AssertCovered(h) ==
    \/ CONTEXTS[h].shared.new_interrupts # 0
    \/ \A b \in 0 .. XLEN - 1 :
          (BitAt(CONTEXTS[h].shared.sip, b) = 1 /\ ~AssertInProgress(h, b))
              => BitAt(history.seen[h], b) = 1

\* An evaluation that finds an enabled interrupt pending traps with an
\* interrupt cause
DeliveredAtBoundary(h) ==
    (at[h].phase = "pending" /\ interrupt_pending(CONTEXTS[h]) # 0) =>
        /\ check_pending(CONTEXTS[h]).scause >= Pow2(XLEN - 1)
        /\ check_pending(CONTEXTS[h]).pc = CONTEXTS[h].stvec

\* C15: no asserted interrupt is lost, in any interleaving of assert on
\* another thread with check_interrupt on the hart's thread: once assert has
\* returned and while no check is in progress, new_interrupts is non-zero or
\* a check of the hart has evaluated sip with the bit in it; and the
\* evaluation at the block boundary traps when the bit is enabled.
NoAssertLost ==
    \A h \in DOMAIN CONTEXTS :
        /\ ~CheckInProgress(h) => AssertCovered(h)
        /\ DeliveredAtBoundary(h)

\* assert has returned after a check evaluated sip between the two accesses
\* of the call: the bit has been observed and the wake flag is set as well
NoAssertLostWitness ==
    \E h \in DOMAIN CONTEXTS :
        /\ asserts = {}
        /\ BitAnd(CONTEXTS[h].shared.sip, 512) # 0
        /\ BitAnd(history.seen[h], 512) # 0
        /\ CONTEXTS[h].shared.new_interrupts # 0
        /\ CONTEXTS[h].scause = Pow2(XLEN - 1) + 9

\* The ops by which a hart enables interrupts: a write to sie, a write to
\* sstatus that sets SIE, and sret
EnablingOps ==
    { MkCsrOp("Csrrw", 0, 5, 0, "Sie"), MkCsrOp("Csrrsi", 0, 0, 2, "Sstatus"),
      MkOp("Sret", 0, 0, 0, 0) }

\* The op has completed and an interrupt that was not deliverable before it
\* is deliverable after it
MadeDeliverable(c, r, h) ==
    /\ r.ok
    /\ interrupt_pending(c) = 0
    /\ interrupt_pending(r.w.C[h]) # 0

WakesAfter(c, r, h) == MadeDeliverable(c, r, h) => r.w.C[h].shared.new_interrupts # 0

\* C16: whenever an op of the hart itself (a CSR write to sie or to sstatus,
\* or sret restoring SIE from SPIE) makes a pending interrupt deliverable,
\* new_interrupts is non-zero afterwards.  Stated for the states in which no
\* call of assert is in progress, where nothing else is about to set the flag.
EnablingAlerts ==
    \A h \in DOMAIN CONTEXTS : \A op \in EnablingOps :
        asserts = {} => WakesAfter(CONTEXTS[h], step(CurWorld, h, op, cycle), h)

\* Arguments of SBI call 0
TimerArgs == {0, 1, 2}

\* SBI call 0 with argument a0 on hart h: timecmp, the timer bit, the queue
SetTimerEffect(h, a0, r) ==
    /\ r.ok
    /\ r.w.C[h].timecmp = (a0 * 100) % WordMod
    /\ BitAt(r.w.C[h].shared.sip, 5) = 0
    /\ r.w.ev = events \o <<[cycle |-> (a0 * 100) % WordMod, hart |-> h]>>

\* Only the timer interrupt is pending, and it is enabled
OnlyTimerEnabled(c) ==
    /\ BitAt(c.sstatus, 1) = 1
    /\ BitAt(c.sie, 5) = 1
    /\ \A b \in 0 .. XLEN - 1 : b # 5 => ~PendingEnabled(c.shared.sip, c.sie, b)

\* Before the deadline check_interrupt leaves the timer bit clear and takes
\* no timer trap; from the deadline on it takes one
TimerCheck(c, now, post) ==
    IF now < c.timecmp
    THEN /\ BitAt(post.shared.sip, 5) = 0
         /\ NoInterruptTaken(c, post) \/ post.scause # Pow2(XLEN - 1) + 5
    ELSE OnlyTimerEnabled(c) => InterruptTaken(c, post, 5)

\* The handlers of the due events alert the harts that queued them
HandlersAlert(C) ==
    \A i \in DueEvents(events, cycle) : C[events[i].hart].shared.new_interrupts # 0

\* C17: SBI call 0 with argument a0 sets timecmp = a0 * 100 (in the word),
\* deasserts bit 5 of sip and queues one event at that cycle; then no timer
\* trap is delivered at a block boundary where the cycle is below timecmp;
\* with sie bit 5 and sstatus.SIE set and nothing else pending, a
\* check_interrupt at a cycle >= timecmp traps with scause =
\* 2^(XLEN-1) | 5; and the handler of the queued event sets new_interrupts
\* when the event loop runs it.
TimerFiresAtDeadline ==
    /\ \A h \in DOMAIN CONTEXTS : \A a0 \in TimerArgs :
          SetTimerEffect(h, a0, sbi_call(CurWorld, h, 0, a0, 0))
    /\ \A h \in DOMAIN CONTEXTS :
          TimerCheck(CONTEXTS[h], cycle, check_interrupt(CONTEXTS[h], cycle))
    /\ HandlersAlert(handle_events(CONTEXTS, events, cycle))

\* The timer set by SBI call 0 with a0 = 1 has fired at cycle 100: the hart
\* has trapped with the timer cause and the event loop has run the handler
TimerFiresAtDeadlineWitness ==
    \E h \in DOMAIN CONTEXTS :
        /\ CONTEXTS[h].timecmp = 100
        /\ cycle = 100
        /\ CONTEXTS[h].scause = Pow2(XLEN - 1) + 5
        /\ CONTEXTS[h].sepc # 0
        /\ BitAnd(CONTEXTS[h].shared.sip, 544) = 32
        /\ events = <<>>

\* Sizes of the allocations of find_block, in cells
AllocSizes == 1 .. 4

\* The request of n cells at cursor c crosses the midpoint from below
CrossesMidpoint(c, n) == c <= HEAP_SIZE \div 2 /\ HEAP_SIZE \div 2 < c + n

\* The request of n cells at cursor c does not fit below the top
OverflowsTop(c, n) == c + n > HEAP_SIZE

\* The result a of alloc_size(n) for the cursor c and the map ic
AllocEffect(c, ic, n, a) ==
    /\ (CrossesMidpoint(c, n) \/ OverflowsTop(c, n)) => a.ic = <<>>
    /\ ~(CrossesMidpoint(c, n) \/ OverflowsTop(c, n)) => a.ic = ic /\ a.ret = c
    /\ (OverflowsTop(c, n) /\ ~CrossesMidpoint(c, n)) => a.ret = 0
    /\ a.heap.cursor = a.ret + n

RECURSIVE BuildRolls(_, _)
\* One of the allocations of the sizes in turn, from cursor c, clears the map
BuildRolls(c, sizes) ==
    IF sizes = <<>> THEN FALSE
    ELSE \/ CrossesMidpoint(c, Head(sizes))
         \/ OverflowsTop(c, Head(sizes))
         \/ BuildRolls((IF OverflowsTop(c, Head(sizes)) /\ ~CrossesMidpoint(c, Head(sizes))
                        THEN 0 ELSE c) + Head(sizes), Tail(sizes))

\* The map after find_block built the block of n ops for the key k
BuildEffect(c, ic, n, k, post) ==
    IF BuildRolls(c, <<n, n, n, 1>>) THEN DOMAIN post = {k}
    ELSE /\ DOMAIN post = DOMAIN ic \cup {k}
         /\ \A x \in DOMAIN ic : post[x] = ic[x]

\* find_block of hart h misses in the map
MissesAt(h) ==
    /\ insn_translate(CONTEXTS[h], memory, CONTEXTS[h].pc).ok
    /\ insn_translate(CONTEXTS[h], memory, CONTEXTS[h].pc).val \notin DOMAIN ICACHE

\* C18: alloc_size(n) with the cursor at c in a Heap of HEAP_SIZE cells
\* leaves the map empty when c <= HEAP_SIZE/2 < c + n or c + n > HEAP_SIZE
\* (the cursor restarting at 0), and leaves it unchanged otherwise; after a
\* build that crossed the midpoint or wrapped, no block inserted before that
\* build remains in the map.
RolloverClearsMap ==
    /\ \A n \in AllocSizes :
          AllocEffect(CODE_CACHE.cursor, ICACHE, n, alloc_size(CODE_CACHE, ICACHE, n))
    /\ \A h \in DOMAIN CONTEXTS :
          MissesAt(h) =>
              BuildEffect(CODE_CACHE.cursor, ICACHE, Len(CodeAt(CONTEXTS[h].pc)),
                          CONTEXTS[h].pc,
                          find_block_icache(CachedWorld, h, CodeAt(CONTEXTS[h].pc),
                              insn_translate(CONTEXTS[h], memory, CONTEXTS[h].pc)).w.ic)

\* A build has just wrapped at the top: the cursor is back in the lower
\* half, the map holds the one block of that build, and the other hart
\* holds a block that is no longer in the map
RolloverClearsMapWitness ==
    /\ Cardinality(DOMAIN ICACHE) = 1
    /\ CODE_CACHE.cursor < HEAP_SIZE \div 2
    /\ CODE_CACHE.bytes[HEAP_SIZE - 1] # NoBlock
    /\ \E h \in DOMAIN CONTEXTS :
          /\ at[h].phase = "block"
          /\ CONTEXTS[h].cur_block.pc_start \notin DOMAIN ICACHE

\* C19: in threaded mode, in every interleaving, the arena cells of a block
\* are not overwritten by a later allocation while a hart still holds the
\* block as cur_block in the middle of its execution.
HeldBlockNotOverwritten ==
    \A h \in DOMAIN CONTEXTS :
        (at[h].phase = "block" /\ at[h].i > 0) =>
            HeldIntact(CODE_CACHE, CONTEXTS[h].cur_block)

\* Addresses a guest store is tried at: pages 0 to 3, page 1 and page 3
\* holding the guest code
WriteAddrs == {0, PAGE_SIZE + 8, 2 * PAGE_SIZE, 3 * PAGE_SIZE + 8}

\* sd x0, 0(x2)
StoreOp == MkOp("Sd", 0, 2, 0, 0)

\* The key x lies in the two pages around the written page
AroundPage(x, page) == page - 4096 <= x /\ x < page + 4096

\* The map post and the context d after a write miss by context c at paddr
\* (virtual address addr) with the map ic
WriteMissEffect(c, ic, addr, paddr, d, post) ==
    /\ \A k \in DOMAIN post : ~AroundPage(post[k].pc_start, PageBase(paddr))
    /\ \A k \in DOMAIN ic :
          ~AroundPage(k, PageBase(paddr)) => (k \in DOMAIN post /\ post[k] = ic[k])
    /\ DOMAIN post \subseteq DOMAIN ic
    /\ d.line[LineIndex(PageOf(addr))].tag = 2 * PageOf(addr)
    /\ d.i_line[LineIndex(PageOf(addr))].tag # PageOf(addr)

WriteMissChecked(c, h, addr, r) ==
    (WriteMiss(c, memory, addr) /\ r.ok) =>
        WriteMissEffect(c, ICACHE, addr, translate(c, memory, addr, TRUE).val,
                        r.w.C[h], r.w.ic)

\* C20: after a D-side write miss to physical page P that succeeds, the map
\* holds no block with pc_start in [P - 4096, P + 4096), every other block
\* is as before, the line entry of the page is writable, and the i_line
\* entry at that index does not name the page.
WriteMissInvalidates ==
    \A h \in DOMAIN CONTEXTS : \A addr \in WriteAddrs :
        WriteMissChecked([CONTEXTS[h] EXCEPT !.registers[2] = addr], h, addr,
            step_icache(SetCtx(CachedWorld, h, [CONTEXTS[h] EXCEPT !.registers[2] = addr]),
                        h, StoreOp, cycle))

\* A hart has stored to page 2 from its block at page 3: the block of page 1
\* is gone from the map and the storing block itself is still there
WriteMissInvalidatesWitness ==
    \E h \in DOMAIN CONTEXTS :
        /\ at[h] = [phase |-> "block", i |-> 2]
        /\ CONTEXTS[h].cur_block.block = StorePage
        /\ CONTEXTS[h].line[LineIndex(2)].tag = 4
        /\ PAGE_SIZE \notin DOMAIN ICACHE
        /\ 3 * PAGE_SIZE \in DOMAIN ICACHE

\* The line entry e after the refill for addr, translated to paddr: a
\* writable entry of the page
RefilledWritable(e, addr, paddr) ==
    /\ e.tag = 2 * PageOf(addr)
    /\ e.paddr = BitXor(paddr, addr)

ReadMissChecked(c, m, addr, r) ==
    ReadMiss(c, m, addr) =>
        /\ r.ok
        /\ RefilledWritable(r.ctx.line[LineIndex(PageOf(addr))], addr, r.val)

\* C21: after a D-side read miss that translates, the line entry of the
\* page has tag = pn << 1, low bit clear, and paddr = phys XOR virt, so that
\* a following store to the page passes the write hit test tag = pn << 1.
ReadMissLeavesWritable ==
    \A h \in DOMAIN CONTEXTS : \A pn \in 0 .. 3 :
        ReadMissChecked(CONTEXTS[h], memory, pn * PAGE_SIZE + 8,
                        read_vaddr(CONTEXTS[h], memory, pn * PAGE_SIZE + 8))

\* Hart 0 has returned from its SBI call 6
FenceReturned ==
    /\ CONTEXTS[0].registers[17] = 6
    /\ CONTEXTS[0].registers[10] = 0
    /\ ~(at[0].phase = "block" /\ CONTEXTS[0].cur_block.block = FenceAll)

\* C22: once hart 0 has rewritten a PTE and its SBI call 6 naming hart 1
\* has returned, no entry of hart 1's line and i_line arrays comes from the
\* old PTE, whatever the interleaving of the flush with hart 1's refills:
\* every entry agrees with the translator.
RemoteFenceLeavesNoStaleEntry ==
    FenceReturned => CachesAgree(CONTEXTS[1], memory)

\* Occurrences of x in a sequence
CountIn(s, x) == Cardinality({ i \in DOMAIN s : s[i] = x })

NonDecreasing(ran) == \A i, j \in DOMAIN ran : i < j => ran[i].cycle <= ran[j].cycle

\* The entries of ran are the entries of ev due at now, each once
RanExactlyDue(ev, now, ran) ==
    /\ Len(ran) = Cardinality(DueEvents(ev, now))
    /\ \A i \in DOMAIN ev :
          CountIn(ran, ev[i]) =
              IF ev[i].cycle <= now
              THEN Cardinality({ j \in DOMAIN ev : ev[j] = ev[i] }) ELSE 0

SmallestLeft(left) ==
    IF left = <<>> THEN None
    ELSE Some(CHOOSE t \in { left[i].cycle : i \in DOMAIN left } :
                 \A i \in DOMAIN left : t <= left[i].cycle)

\* C23: on every heap the program reaches, at the cycle it is reached at and
\* whichever order the heap pops equal deadlines in, handle_events runs the
\* handlers of exactly the entries with deadline <= cycle, each once, in
\* non-decreasing order of deadline, leaves the entries with a later
\* deadline in the heap, and returns the smallest deadline left, None when
\* nothing is left.
HandleEventsRunsDue ==
    \A o \in handle_events_runs(events, cycle, <<>>) :
        /\ RanExactlyDue(events, cycle, o.ran)
        /\ NonDecreasing(o.ran)
        /\ o.left = KeptEvents(events, cycle)
        /\ o.next = SmallestLeft(o.left)

\* One call has run two handlers of different deadlines and left an entry
HandleEventsRunsDueWitness ==
    /\ at["event_loop"].phase = "wait"
    /\ Len(history.last) = 2
    /\ history.last[1].cycle < history.last[2].cycle
    /\ events # <<>>
    /\ at["event_loop"].until = SmallestLeft(events)

LoopReturned == at["event_loop"].phase = "returned"

\* C24: in both modes, once shutdown has stored the flag the event loop
\* fiber eventually returns, and from the store on no handler runs except
\* in an iteration that read the flag before the store: a loop that has
\* seen the flag runs none, the events still queued stay in the heap.
ShutdownStopsLoop ==
    /\ EVENT_LOOP.shutdown ~> LoopReturned
    /\ [][EVENT_LOOP.shutdown /\ at["event_loop"].phase # "handle"
              => history'.ran = history.ran /\ Len(events') >= Len(events)]_vars

\* The loop has returned and left a timer event that was due
ShutdownStopsLoopWitness ==
    /\ LoopReturned
    /\ EVENT_LOOP.shutdown
    /\ \E i \in DOMAIN events : events[i].hart = 0 /\ events[i].cycle <= cycle

\* The fibers have been run again after a change of mode and shutdown has
\* not been called since
RestartedUnasked == history.restarts > 0 /\ ~history.requested

\* C26: after a toggle of the mode, with the fibers run again by main and no
\* further shutdown requested, the event loop fiber is running (it has not
\* returned), so that the events queued from then on have a loop to
\* dispatch them.
RestartedLoopKeepsRunning == RestartedUnasked => ~LoopReturned

\* What the guest is to receive of the bytes read: a byte outside a Ctrl-A
\* sequence unchanged, of a sequence Ctrl-A Ctrl-A one byte 1, of any other
\* sequence nothing
RECURSIVE Forwarded(_, _)
Forwarded(read, escaped) ==
    IF read = <<>> THEN <<>>
    ELSE IF escaped
    THEN (IF Head(read) = 1 THEN <<1>> ELSE <<>>) \o Forwarded(Tail(read), FALSE)
    ELSE IF Head(read) = 1 THEN Forwarded(Tail(read), TRUE)
    ELSE <<Head(read)>> \o Forwarded(Tail(read), FALSE)

\* C25: whenever the console thread is at the top of its loop, the bytes it
\* has sent to the guest are those of the bytes read that lie outside a
\* Ctrl-A sequence, in order, and one byte 1 for each Ctrl-A Ctrl-A: the
\* sequences Ctrl-A t, Ctrl-A x, Ctrl-A c and Ctrl-A with any other byte
\* have forwarded nothing.
ConsoleForwardsOutsideSequences ==
    at["console"].phase = "read" => console.tx = Forwarded(history.read, FALSE)

\* The dispatcher's advance of pc over entry e of hart h, then step
Dispatched(h, e) ==
    step(SetCtx(CurWorld, h, [CONTEXTS[h] EXCEPT !.pc = wrapping_add(@, OpSize(e))]),
         h, e.inst, cycle).w.C[h]

\* Immediates of the PC-relative ops checked
RelImms == {8, 64, Neg(4)}

\* Both encodings of an op that has a compressed form
Encodings(op) == { Op4(op), Op2(op) }

AccessAddrs == 0 .. 15

\* The access ops of width 8 with x0 as base: the address is the immediate
WideAccess(name, addr) ==
    IF name \in {"Fld", "Fsd"} THEN [MkFpOp(name, 1, 0, 1, 0, 0) EXCEPT !.imm = addr]
    ELSE MkOp(name, 1, 0, 1, addr)

MisalignedCause(name) == IF name \in {"Ld", "Fld"} THEN 4 ELSE 5

\* step of op on hart h has raised the misalignment trap of its kind at addr
MisalignedTrap(h, name, addr, r) ==
    /\ ~r.ok
    /\ r.w.C[h].scause = MisalignedCause(name)
    /\ r.w.C[h].stval = addr

\* C28: for ld, sd, fld and fsd (width 8; the floating-point ones with FS
\* on) in every reachable hart state and at every effective address: an
\* address that is not a multiple of 8 makes the op fail with cause 4 (load)
\* or 5 (store) and stval = address, memory and the L0 lines untouched; an
\* address that is a multiple of 8 raises no misalignment trap.
MisalignedAccessTraps ==
    \A h \in DOMAIN CONTEXTS : \A name \in {"Ld", "Sd", "Fld", "Fsd"} :
        \A addr \in AccessAddrs :
            (name \in {"Fld", "Fsd"} => test_and_set_fs(CONTEXTS[h]).ok) =>
                LET r == step(CurWorld, h, WideAccess(name, addr), cycle)
                IN  IF addr % 8 # 0
                    THEN /\ MisalignedTrap(h, name, addr, r)
                         /\ r.w.m = memory
                         /\ r.w.C[h].line = CONTEXTS[h].line
                    ELSE ~MisalignedTrap(h, name, addr, r)

\* sstatus values the guest writes: FS = Off, Initial, Clean, Dirty
FsValues == {0, 8192, 16384, 24576}

\* What a read of sstatus presents: FS Dirty, SD set, UXL = 0b10
PresentsDirty(value) ==
    /\ BitAnd(value, 24576) = 24576
    /\ BitAnd(value, SSTATUS_SD) # 0
    /\ BitAnd(value, SSTATUS_UXL) # 0

SstatusRead(c) == read_csr(c, "Sstatus", cycle)

\* C29: in every reachable hart state, a read of sstatus that is permitted
\* presents FS = Dirty with SD set and UXL = 0b10, and so does the read that
\* follows a write of sstatus with FS = Off, Initial, Clean or Dirty.
SstatusReadsDirty ==
    \A h \in DOMAIN CONTEXTS :
        /\ SstatusRead(CONTEXTS[h]).ok => PresentsDirty(SstatusRead(CONTEXTS[h]).val)
        /\ \A v \in FsValues :
              LET wr == write_csr(CONTEXTS[h], "Sstatus", v)
              IN  wr.ok /\ SstatusRead(wr.ctx).ok => PresentsDirty(SstatusRead(wr.ctx).val)

\* The page after the code is not mapped, paging is on, and the c.nop in
\* front of the straddling instruction has retired
PastStraddlePrefix(c, m) ==
    /\ 10 * PAGE_SIZE + 24 \notin DOMAIN m
    /\ SatpMode(c.satp) = 8
    /\ c.instret >= 5

\* C30: with the page after the code unmapped, the 4-byte instruction that
\* starts at offset 4094 never retires: running it delivers a page fault
\* with sepc at the instruction, scause = 13 and stval in the page that
\* failed to translate (the only later trap is the fetch fault at stvec = 0).
StraddlingFetchFaults ==
    \A h \in DOMAIN CONTEXTS :
        PastStraddlePrefix(CONTEXTS[h], memory) =>
            /\ CONTEXTS[h].instret = 5
            /\ CONTEXTS[h].sepc \in {StraddleAt, 0}
            /\ CONTEXTS[h].sepc = StraddleAt =>
                  CONTEXTS[h].scause = 13 /\ PageOf(CONTEXTS[h].stval) = 3

\* A block of n ops whose entry k (0-based, k < n - 1) reads instret into
\* x5; the other entries before the closing jump are no-ops
InstretReadAt(k, n) ==
    [i \in 1 .. n |->
        IF i = k + 1 THEN Op4(MkCsrOp("Csrrs", 5, 0, 0, "Instret"))
        ELSE IF i = n THEN JumpNext
        ELSE Op4(MkOp("Addi", 0, 0, 0, 0))]

\* Lengths of the blocks checked
InstretBlockLens == 2 .. 3

TimedWaitEndsAtDeadline ==
    (/\ FLAGS.thread
     /\ at["event_loop"].phase = "wait"
     /\ at["event_loop"].until.some)
        => at["event_loop"].expires = at["event_loop"].until

\* The heap holds a timer event whose deadline the cycle has reached
DueQueued == \E i \in DOMAIN events : events[i].cycle <= cycle /\ events[i].hart # NoHart

\* C32: as long as no shutdown has been asked for, the timer events in the
\* heap whose deadline the cycle has reached are eventually run, in threaded
\* and in lockstep mode, whatever the loop was waiting for when they were
\* queued.
DueEventsEventuallyRun == DueQueued ~> (~DueQueued \/ EVENT_LOOP.shutdown)

\* In threaded mode, while the loop is in a timed wait for a deadline, an
\* event of an earlier deadline that the cycle has reached has been queued,
\* and the condvar notified
DueEventsEventuallyRunWitness ==
    /\ FLAGS.thread
    /\ ~EVENT_LOOP.shutdown
    /\ at["event_loop"].phase = "wait"
    /\ at["event_loop"].until.some
    /\ EVENT_LOOP.notified
    /\ PeekTime(events) < at["event_loop"].until.val
    /\ PeekTime(events) <= cycle

LinePage(e) == PageOf(BitXor(e.paddr, Shl(Shr(e.tag, 1), CACHE_LINE_LOG2_SIZE)))

\* The context has a line entry with the low bit of the tag clear (a store
\* hits it) that maps to the physical page
WritableTo(c, page) ==
    \E i \in DOMAIN c.line : c.line[i].tag % 2 = 0 /\ LinePage(c.line[i]) = page

\* C35: whenever the map holds a block with pc_start in a physical page, no
\* hart has a writable line entry that maps to that page.
NoWritableLineToCode ==
    \A k \in DOMAIN ICACHE : \A h \in DOMAIN CONTEXTS :
        ~WritableTo(CONTEXTS[h], PageOf(ICACHE[k].pc_start))

\* The cells of the arena
Arena == 0 .. HEAP_SIZE - 1

\* C36: with allocations of at most HEAP_SIZE / 2 each, after any sequence of
\* block builds (four allocations, then the insertion in the map) and
\* rollovers: every block of the map lies in cells of the arena that still
\* hold it, no later allocation has reused them; the cursor is at most
\* HEAP_SIZE.
MapBlocksIntact ==
    /\ CODE_CACHE.cursor <= HEAP_SIZE
    /\ \A k \in DOMAIN ICACHE :
          /\ ICACHE[k].cells \subseteq Arena
          /\ HeldIntact(CODE_CACHE, ICACHE[k])

\* The cursor has come to the top of the arena and restarted at 0, the
\* lower half is being reused, and the map holds a block built since
MapBlocksIntactWitness ==
    /\ CODE_CACHE.bytes[HEAP_SIZE - 1] # NoBlock
    /\ CODE_CACHE.cursor <= HEAP_SIZE \div 2
    /\ \E k \in DOMAIN ICACHE : \A x \in ICACHE[k].cells : x < CODE_CACHE.cursor

\* Thread h spins on a lock that thread g holds
WaitsFor(h, g) == Wants(h) \cap Holds(g) # {}

\* C37: the locks of the code cache never deadlock: no thread holds the map
\* lock (ICACHE) while it takes the arena lock (CODE_CACHE), no thread takes
\* a lock it holds, and no two threads wait for each other.
CacheLocksNeverDeadlock ==
    \A h \in DOMAIN CONTEXTS :
        /\ "CODE_CACHE" \in Wants(h) => "ICACHE" \notin Holds(h)
        /\ ~WaitsFor(h, h)
        /\ \A g \in DOMAIN CONTEXTS : ~(WaitsFor(h, g) /\ WaitsFor(g, h))

\* A thread that holds the arena lock and is in an alloc_size that rolls
\* over waits for the map lock, which the other thread holds for its lookup
CacheLocksNeverDeadlockWitness ==
    \E h, g \in DOMAIN CONTEXTS :
        /\ at[h].phase = "alloc"
        /\ "CODE_CACHE" \in Holds(h)
        /\ WaitsFor(h, g)
        /\ at[g].phase = "lookup"

\* The offsets Mmio gives a register to, read or written
MmioRegisters ==
    {ADDR_MAGIC_VALUE, ADDR_VERSION, ADDR_DEVICE_ID, ADDR_VENDOR_ID, ADDR_DEVICE_FEATURES,
     ADDR_DEVICE_FEATURES_SEL, ADDR_DRIVER_FEATURES, ADDR_DRIVER_FEATURES_SEL,
     ADDR_QUEUE_SEL, ADDR_QUEUE_NUM_MAX, ADDR_QUEUE_NOTIFY, ADDR_INTERRUPT_STATUS,
     ADDR_INTERRUPT_ACK, ADDR_STATUS, ADDR_CONFIG_GENERATION} \cup QueueRegisters

\* C40: for a 4-byte access at every offset below 0x100, in every state of
\* the device and for every queue_sel: read and write do not reach an
\* unreachable_unchecked arm; at an offset that is no register the read
\* returns 0 and the write changes nothing; a write changes the queues only
\* when queue_sel < num_queues.
RegisterAccessesDefined ==
    \A addr \in Offsets :
        /\ \A o \in Mmio_read(MMIO, addr, 4) :
              /\ ~o.unreachable
              /\ addr \notin MmioRegisters => o.ret = 0
        /\ \A value \in MmioValues : \A o \in Mmio_write(MMIO, addr, value, 4) :
              /\ ~o.unreachable
              /\ addr \notin MmioRegisters => o.mmio = MMIO
              /\ (MMIO.queue_sel >= num_queues(MMIO) /\ addr # ADDR_STATUS)
                    => o.mmio.queues = MMIO.queues

\* The fiber waits to be unpaused
Parked(state) == state \in {"prepared", "paused"}

\* C38: park loses no wake-up.  A fiber whose validate returned false is
\* not queued, has not called before_sleep and has returned.  A fiber
\* whose validate returned true is on the wait list from the closure on until
\* an unpark selects it, and once the unpark calls that selected it are
\* over it is unpaused, even if the unpark came before its pause: park
\* returns.
ParkLosesNoWakeup ==
    \A f \in Fibers :
        /\ (at[f].phase # "start" /\ ~at[f].valid) =>
              /\ at[f].phase = "returned"
              /\ ~at[f].slept
              /\ \A i \in DOMAIN history.enqueued : history.enqueued[i] # f
        /\ (at[f].valid /\ f \notin history.selected) =>
              \E i \in DOMAIN Listed : Listed[i] = f
        /\ (f \in history.selected /\ at[Unparker].phase = "idle") =>
              ~Parked(at[f].state)

\* C39: unpark_all unpauses no fiber twice, and when it reads the next
\* field of an entry, the fiber that owns the entry (on whose stack the
\* entry lies) has not been unpaused yet.
UnparkAllReadsLiveEntries ==
    /\ \A f \in Fibers : history.woken[f] <= 1
    /\ at[Unparker].phase = "next" => Parked(at[at[Unparker].cur].state)

====
